---- MODULE Spec2Model ----
(***************************************************************************)
(* Among-Us-AI: the memory-access and object-graph-resolution layer.       *)
(*   amongus_reader/core/memory.py            MemoryClient                 *)
(*   amongus_reader/il2cpp/scan.py            Il2CppScanner                *)
(*   amongus_reader/service/data_service.py   AmongUsDataService           *)
(*                                                                         *)
(* The target process's memory is a sparse map from 4-aligned addresses to *)
(* 32-bit cells.  An address outside the map is not committed: a read of   *)
(* it raises MemoryReadError.  A cell is kept as its two 16-bit halves     *)
(* [hi, lo], because TLC's integers are 32-bit signed and a cell           *)
(* may hold any unsigned 32-bit value.                                     *)
(***************************************************************************)
EXTENDS Integers, Sequences, FiniteSets, TLC

VARIABLES
    mem,        \* the target process's memory: address -> cell
    memory,     \* AmongUsDataService.memory / Il2CppScanner.memory: the MemoryClient, or NoMemory
    now,        \* time.time(), in ticks
    call,       \* the last completed call: its operation, arguments and result
    scan,       \* the frame of a running scan_heap_for_class_instances
    proc,       \* the target process: what the operating system answers about it
    svc         \* the AmongUsDataService object: its caches and its metadata index

vars == <<mem, memory, now, call, scan, proc, svc>>

----------------------------------------------------------------------------
(* Bounds of the model. *)

MaxSlots == 3       \* slots of the owner object of a span scan
MaxHeapSlots == 3   \* pointer-sized words of the scanned heap
MaxLimit == 2       \* the largest limit of a heap scan
MaxTime == 2        \* the last tick at which a deadline may lie

----------------------------------------------------------------------------
(* 32-bit cells. *)

Half == 256 * 256

\* The cell holding the 32-bit pattern of n, -2^31 <= n < 2^31.
W(n) == [hi |-> (n \div Half) % Half, lo |-> n % Half]

\* A cell decoded as an address.  User-space addresses lie below 0x80000000
\* (max_address, memory.py:233); a pattern above that decodes to HighAddr, an
\* address that is never committed.
HighAddr == 2147483647
AddrOf(c) == IF c.hi < 32768 THEN c.hi * Half + c.lo ELSE HighAddr

Min(S) == CHOOSE x \in S : \A y \in S : x <= y
Max(S) == CHOOSE x \in S : \A y \in S : x >= y

Merge(f, g) == [a \in (DOMAIN f) \cup (DOMAIN g) |-> IF a \in DOMAIN f THEN f[a] ELSE g[a]]

EmptyMem == [a \in {} |-> W(0)]

----------------------------------------------------------------------------
(* MemoryClient: the typed reads. *)

NoMemory == [pid |-> 0, base |-> 0, is_64 |-> FALSE]

\* A faulty variant: every target read as narrow.
PtrSizeAlways4(is_64) == 4
\* A 4-byte pointer on a narrow target, an 8-byte pointer on a wide one.
PtrSize(is_64) == IF is_64 THEN 8 ELSE 4

\* is_address_committed(addr), and the bytes of the read being there.
CanRead32(m, a) == a \in DOMAIN m
CanReadPtr(m, is_64, a) ==
    /\ a \in DOMAIN m
    /\ PtrSize(is_64) = 8 => (a + 4) \in DOMAIN m

read_u32(m, a) == m[a]

\* read_int: the cell as a signed 32-bit integer; ctypes.c_int(u).value does
\* the same to an unsigned value u.
c_int(c) == IF c.hi >= 32768 THEN (c.hi - Half) * Half + c.lo ELSE c.hi * Half + c.lo
read_int(m, a) == c_int(m[a])

\* read_f32: the cell as an IEEE-754 single, kept as its bit pattern.
read_f32(m, a) == m[a]
\* "x == 0.0" holds of +0.0 and of -0.0.
F32IsZero(c) == c.lo = 0 /\ c.hi \in {0, 32768}

\* Offsets.OBJ_FIELDS_OFF_*, Offsets.IL2CPP_ARRAY_VECTOR_OFF_*
OBJ_FIELDS_OFF_X86 == 8
OBJ_FIELDS_OFF_X64 == 16
IL2CPP_ARRAY_VECTOR_OFF_X86 == 16
IL2CPP_ARRAY_VECTOR_OFF_X64 == 32
ObjFieldsOff(is_64) == IF is_64 THEN OBJ_FIELDS_OFF_X64 ELSE OBJ_FIELDS_OFF_X86
ArrayVectorOff(is_64) == IF is_64 THEN IL2CPP_ARRAY_VECTOR_OFF_X64 ELSE IL2CPP_ARRAY_VECTOR_OFF_X86

\* read_ptr: read_uint or read_ulonglong.  A wide pointer with a non-zero
\* high word lies above 4 GiB and decodes to HighAddr.
read_ptr(m, is_64, a) ==
    IF PtrSize(is_64) = 8
    THEN IF AddrOf(m[a + 4]) = 0 THEN AddrOf(m[a]) ELSE HighAddr
    ELSE AddrOf(m[a])

\* The cells that hold pointer p at address a.
PutPtr(is_64, a, p) ==
    IF is_64 THEN [x \in {a, a + 4} |-> IF x = a THEN W(p) ELSE W(0)]
    ELSE [x \in {a} |-> W(p)]

----------------------------------------------------------------------------
(* Il2CppScanner.scan_fields_for_class *)

\* The stride positions of range(fields_base, fields_base + span_bytes, step)
\* that are committed; the loop skips every other position on its exception.
StridePositions(m, is_64, fields_base, span_bytes) ==
    {cur \in DOMAIN m :
        /\ cur >= fields_base
        /\ cur < fields_base + span_bytes
        /\ (cur - fields_base) % PtrSize(is_64) = 0}

\* "ptr = read_ptr(cur); if ptr: k = read_ptr(ptr); if k == target_klass"
SlotHoldsInstance(m, is_64, cur, target_klass) ==
    /\ CanReadPtr(m, is_64, cur)
    /\ read_ptr(m, is_64, cur) # 0
    /\ CanReadPtr(m, is_64, read_ptr(m, is_64, cur))
    /\ read_ptr(m, is_64, read_ptr(m, is_64, cur)) = target_klass

\* Faulty variants: the scan returning the slot's address; the scan running downward.
scan_fields_for_class_ReturnsSlot(m, is_64, fields_base, span_bytes, target_klass) ==
    LET hits == {cur \in StridePositions(m, is_64, fields_base, span_bytes) :
                    SlotHoldsInstance(m, is_64, cur, target_klass)}
    IN  IF hits = {} THEN 0 ELSE Min(hits)

scan_fields_for_class_Downward(m, is_64, fields_base, span_bytes, target_klass) ==
    LET hits == {cur \in StridePositions(m, is_64, fields_base, span_bytes) :
                    SlotHoldsInstance(m, is_64, cur, target_klass)}
    IN  IF hits = {} THEN 0 ELSE read_ptr(m, is_64, Max(hits))

\* The loop returns at the first position, in ascending order, whose pointer
\* leads to an object of the target class; it returns the pointer.
scan_fields_for_class(m, is_64, fields_base, span_bytes, target_klass) ==
    LET hits == {cur \in StridePositions(m, is_64, fields_base, span_bytes) :
                    SlotHoldsInstance(m, is_64, cur, target_klass)}
    IN  IF hits = {} THEN 0 ELSE read_ptr(m, is_64, Min(hits))

----------------------------------------------------------------------------
(* The span scans on a synthetic owner object: SpecFields. *)

FieldsBase == 16 * 256          \* 0x1000
ObjBase    == 32 * 256          \* 0x2000
KlassA     == 64 * 256          \* 0x4000
KlassB     == 80 * 256          \* 0x5000
Objs       == {1, 2}
ObjAddr(j) == ObjBase + 256 * j

\* Slot i holds -1 (not committed), 0 (null) or j (a pointer to object j);
\* object j holds 0 (not committed), 1 (class KlassA) or 2 (class KlassB).
FieldsMem(is_64, slotv, objk) ==
    LET SlotCells(i) ==
            IF slotv[i] = 0 - 1 THEN EmptyMem
            ELSE PutPtr(is_64, FieldsBase + i * PtrSize(is_64),
                        IF slotv[i] = 0 THEN 0 ELSE ObjAddr(slotv[i]))
        ObjCells(j) ==
            IF objk[j] = 0 THEN EmptyMem
            ELSE PutPtr(is_64, ObjAddr(j), IF objk[j] = 1 THEN KlassA ELSE KlassB)
        RECURSIVE Slots(_)
        Slots(i) == IF i < 0 THEN EmptyMem ELSE Merge(SlotCells(i), Slots(i - 1))
    IN  Merge(Slots(MaxSlots - 1), Merge(ObjCells(1), ObjCells(2)))

NoCall == [op |-> "none", args |-> <<>>, ret |-> 0]

\* None, where the code keeps an Optional[int].
NoneVal == 0 - 1
EmptyCache == [k \in {} |-> 0]
Put(f, k, v) == [x \in (DOMAIN f) \cup {k} |-> IF x = k THEN v ELSE f[x]]

\* AmongUsDataService.__init__, before it calls attach.
NewService ==
    [class_cache |-> EmptyCache, stringlit_cache |-> EmptyCache,
     hud_ptr_cache |-> 0, report_ptr_cache |-> 0, report_bool_off_cache |-> NoneVal,
     report_scan_last |-> 0,
     cached_playerdata_ptr_off |-> EmptyCache, cached_playerdata_class |-> NoneVal]

\* A 32-bit process under WOW64 on a 64-bit host.
HostProcess == [pid |-> 1, os_is_64 |-> "no", host_64 |-> TRUE, wow64 |-> "yes"]
NoScan == [pc |-> "idle"]

InitFields ==
    /\ \E is_64 \in BOOLEAN :
       \E slotv \in [0..(MaxSlots - 1) -> ({0 - 1, 0} \cup Objs)] :
       \E objk \in [Objs -> {0, 1, 2}] :
          /\ memory = [pid |-> 1, base |-> 0, is_64 |-> is_64]
          /\ mem = FieldsMem(is_64, slotv, objk)
    /\ now = 1
    /\ call = NoCall
    /\ scan = NoScan
    /\ proc = HostProcess
    /\ svc = NewService

ScanFieldsForClassCall ==
    /\ call.op = "none"
    /\ \E nslots \in 0..MaxSlots :
       \E target_klass \in {KlassA, KlassB} :
          LET span_bytes == nslots * PtrSize(memory.is_64) IN
          call' = [op |-> "scan_fields_for_class",
                   args |-> <<FieldsBase, span_bytes, target_klass>>,
                   ret |-> scan_fields_for_class(mem, memory.is_64, FieldsBase,
                                                 span_bytes, target_klass)]
    /\ UNCHANGED <<mem, memory, now, scan, proc, svc>>

NextFields == ScanFieldsForClassCall

SpecFields == InitFields /\ [][NextFields]_vars

\* The slots of the span of the completed call, and those that match.
SpanSlots ==
    {FieldsBase + i * PtrSize(memory.is_64) :
        i \in {k \in 0..(MaxSlots - 1) : k * PtrSize(memory.is_64) < call.args[2]}}
MatchingSlots ==
    {s \in SpanSlots :
        /\ s \in DOMAIN mem
        /\ AddrOf(mem[s]) # 0
        /\ AddrOf(mem[s]) \in DOMAIN mem
        /\ AddrOf(mem[AddrOf(mem[s])]) = call.args[3]}

\* C5 as stated: with exactly one matching slot the call returns the address
\* of that slot.
C5_ReturnsSlotAddress ==
    (call.op = "scan_fields_for_class" /\ Cardinality(MatchingSlots) = 1)
        => \A s \in MatchingSlots : call.ret = s

\* C5 amended: with exactly one matching slot the call returns the pointer
\* stored in that slot, the address of the instance.
C5_ReturnsInstancePointer ==
    (call.op = "scan_fields_for_class" /\ Cardinality(MatchingSlots) = 1)
        => \A s \in MatchingSlots : call.ret = AddrOf(mem[s])

C5_Witness ==
    /\ call.op = "scan_fields_for_class"
    /\ Cardinality(MatchingSlots) = 1
    /\ \E s \in MatchingSlots : s # FieldsBase /\ call.ret = AddrOf(mem[s])

\* C6: with several matching slots the result is the pointer of the lowest
\* matching slot, never the pointer of a higher one while a lower one matches;
\* 0 is returned only when no slot matches.
C6_LowestMatchWins ==
    call.op = "scan_fields_for_class" =>
        /\ \A s \in MatchingSlots :
              (\A t \in MatchingSlots : s <= t) => call.ret = AddrOf(mem[s])
        /\ call.ret = 0 => MatchingSlots = {}

C6_Witness ==
    /\ call.op = "scan_fields_for_class"
    /\ \E s, t \in MatchingSlots :
          s < t /\ AddrOf(mem[s]) # AddrOf(mem[t]) /\ call.ret = AddrOf(mem[s])

----------------------------------------------------------------------------
(* Il2CppScanner.scan_heap_for_class_instances, one loop iteration a step. *)

\* time_budget_end is None or a time; "if time_budget_end and ..." takes
\* None and 0 for no deadline.
NoDeadline == 0 - 1
Truthy(t) == t # NoDeadline /\ t # 0
DeadlinePassed(time_budget_end, t) == Truthy(time_budget_end) /\ t > time_budget_end

\* A faulty variant: the loop collecting one hit more than the limit.
WhileCond_OffByOne(cur, end, nfound, limit) == cur < end /\ nfound <= limit
\* "while cur < end and len(found) < limit"
WhileCond(cur, end, nfound, limit) == cur < end /\ nfound < limit

HeapBase == 48 * 256        \* 0x3000

\* Heap word k holds 0 (not committed), 1 (KlassA) or 2 (KlassB).
HeapMem(is_64, heapv) ==
    LET Cells(k) ==
            IF heapv[k] = 0 THEN EmptyMem
            ELSE PutPtr(is_64, HeapBase + k * PtrSize(is_64),
                        IF heapv[k] = 1 THEN KlassA ELSE KlassB)
        RECURSIVE Words(_)
        Words(k) == IF k < 0 THEN EmptyMem ELSE Merge(Cells(k), Words(k - 1))
    IN  Words(MaxHeapSlots - 1)

\* The region lists a caller passes: (start, size) pairs, possibly overlapping.
RegionLists(is_64) ==
    LET whole == <<HeapBase, MaxHeapSlots * PtrSize(is_64)>>
        tail  == <<HeapBase + PtrSize(is_64), (MaxHeapSlots - 1) * PtrSize(is_64)>>
        empty == <<HeapBase, 0>>
    IN  {<< >>, <<whole>>, <<empty, whole>>, <<tail, whole>>}

InitHeap ==
    /\ \E is_64 \in BOOLEAN :
       \E heapv \in [0..(MaxHeapSlots - 1) -> {0, 1, 2}] :
          /\ memory = [pid |-> 1, base |-> 0, is_64 |-> is_64]
          /\ mem = HeapMem(is_64, heapv)
    /\ now = 1
    /\ call = NoCall
    /\ scan = NoScan
    /\ proc = HostProcess
    /\ svc = NewService

\* Entry: "if not target_klass: return []", then found = [] and the for loop.
ScanHeapCall ==
    /\ scan.pc = "idle"
    /\ call.op = "none"
    /\ \E target_klass \in {0, KlassA} :
       \E regions \in RegionLists(memory.is_64) :
       \E limit \in 0..MaxLimit :
       \E time_budget_end \in {NoDeadline} \cup 0..MaxTime :
          IF target_klass = 0
          THEN /\ call' = [op |-> "scan_heap_for_class_instances",
                           args |-> <<target_klass, regions, limit, time_budget_end>>,
                           ret |-> << >>]
               /\ scan' = scan
          ELSE /\ scan' = [pc |-> "for", target_klass |-> target_klass,
                           regions |-> regions, limit |-> limit,
                           time_budget_end |-> time_budget_end, called_at |-> now,
                           ri |-> 1, cur |-> 0, found |-> << >>, reads |-> << >>]
               /\ call' = call
    /\ UNCHANGED <<mem, memory, now, proc, svc>>

ScanHeapReturn ==
    /\ call' = [op |-> "scan_heap_for_class_instances",
                args |-> <<scan.target_klass, scan.regions, scan.limit,
                           scan.time_budget_end>>,
                ret |-> scan.found]
    /\ scan' = [scan EXCEPT !.pc = "done"]

\* The head of "for start, size in regions": the deadline check, then the
\* region's first position.
ScanHeapFor ==
    /\ scan.pc = "for"
    /\ IF scan.ri > Len(scan.regions) \/ DeadlinePassed(scan.time_budget_end, now)
       THEN ScanHeapReturn
       ELSE /\ scan' = [scan EXCEPT !.pc = "while", !.cur = scan.regions[scan.ri][1]]
            /\ call' = call
    /\ UNCHANGED <<mem, memory, now, proc, svc>>

\* One pass of the while loop: the deadline check, the read, the append; or
\* the loop's exit and "if len(found) >= limit: break".
ScanHeapWhile ==
    /\ scan.pc = "while"
    /\ LET end == scan.regions[scan.ri][1] + scan.regions[scan.ri][2]
           ok  == CanReadPtr(mem, memory.is_64, scan.cur)
           obj == IF ok THEN read_ptr(mem, memory.is_64, scan.cur) ELSE 0 - 1
       IN  IF /\ WhileCond(scan.cur, end, Len(scan.found), scan.limit)
              /\ ~DeadlinePassed(scan.time_budget_end, now)
           THEN /\ scan' = [scan EXCEPT
                              !.reads = Append(@, [addr |-> scan.cur, at |-> now,
                                                   hits |-> Len(scan.found), val |-> obj]),
                              !.found = IF ok /\ obj = scan.target_klass
                                        THEN Append(@, scan.cur) ELSE @,
                              !.cur = @ + PtrSize(memory.is_64)]
                /\ call' = call
           ELSE IF Len(scan.found) >= scan.limit
                THEN ScanHeapReturn
                ELSE /\ scan' = [scan EXCEPT !.pc = "for", !.ri = @ + 1]
                     /\ call' = call
    /\ UNCHANGED <<mem, memory, now, proc, svc>>

\* The wall clock advances on its own.
Tick ==
    /\ now <= MaxTime
    /\ now' = now + 1
    /\ UNCHANGED <<mem, memory, call, scan, proc, svc>>

NextHeap == ScanHeapCall \/ ScanHeapFor \/ ScanHeapWhile \/ Tick

SpecHeap == InitHeap /\ [][NextHeap]_vars

Started == scan.pc # "idle"

\* C3: a scan called with a deadline already in the past reads nothing and
\* returns an empty list; no read is issued after the deadline has passed.
C3_NoReadPastDeadline ==
    (Started /\ scan.time_budget_end # NoDeadline) =>
        /\ scan.time_budget_end < scan.called_at
              => (scan.reads = << >> /\ scan.found = << >>)
        /\ \A i \in 1..Len(scan.reads) : scan.reads[i].at <= scan.time_budget_end

\* The positions range(start, start + size, step) of the regions taken so far.
InScannedRegion(a) ==
    \E r \in 1..Len(scan.regions) :
        /\ r <= scan.ri
        /\ a >= scan.regions[r][1]
        /\ a < scan.regions[r][1] + scan.regions[r][2]
        /\ (a - scan.regions[r][1]) % (IF memory.is_64 THEN 8 ELSE 4) = 0

\* C4: at most limit addresses are returned, each a stride position of a
\* scanned region whose word was read equal to target_klass, and no read is
\* issued once limit hits are collected.
C4_LimitBoundsHits ==
    Started =>
        /\ Len(scan.found) <= scan.limit
        /\ \A i \in 1..Len(scan.found) :
              /\ InScannedRegion(scan.found[i])
              /\ \E j \in 1..Len(scan.reads) :
                    /\ scan.reads[j].addr = scan.found[i]
                    /\ scan.reads[j].val = scan.target_klass
        /\ \A j \in 1..Len(scan.reads) : scan.reads[j].hits < scan.limit

\* A scan that stopped at its limit with a further instance left unread.
C4_Witness ==
    /\ scan.pc = "done"
    /\ scan.limit >= 1
    /\ Len(scan.found) = scan.limit
    /\ \E a \in DOMAIN mem :
          /\ a > scan.found[Len(scan.found)]
          /\ InScannedRegion(a)
          /\ AddrOf(mem[a]) = scan.target_klass
          /\ \A j \in 1..Len(scan.reads) : scan.reads[j].addr # a

----------------------------------------------------------------------------
(* AmongUsDataService._get_default_outfit_from_dict *)

DICT_SCAN_MAX == 16

\* A faulty variant: the hash code compared as the unsigned value read_u32 returns.
HashIsNegative_Unsigned(hash_code) == FALSE
\* "ctypes.c_int(hash_code).value < 0"
HashIsNegative(hash_code) == c_int(hash_code) < 0

DictEntriesOff(is_64) == IF is_64 THEN 8 ELSE 4
DictCountOff(is_64)   == IF is_64 THEN 16 ELSE 8
DictEntrySize(is_64)  == IF is_64 THEN 24 ELSE 16
DictValueOff(is_64)   == IF is_64 THEN 16 ELSE 12

\* The for loop from entry i on: the result, and the addresses read.  A read
\* that raises ends the entry ("except Exception: continue").
RECURSIVE DictScanFrom(_, _, _, _, _)
DictScanFrom(m, is_64, entries_base, i, n) ==
    IF i >= n THEN [ret |-> 0, reads |-> {}]
    ELSE
    LET e    == entries_base + i * DictEntrySize(is_64)
        rest == DictScanFrom(m, is_64, entries_base, i + 1, n)
        Continue(read) == [ret |-> rest.ret, reads |-> read \cup rest.reads]
    IN  IF ~CanRead32(m, e) THEN Continue({e})
        ELSE IF HashIsNegative(read_u32(m, e)) THEN Continue({e})
        ELSE IF ~CanRead32(m, e + 8) THEN Continue({e, e + 8})
        ELSE IF read_u32(m, e + 8) # W(0) THEN Continue({e, e + 8})
        ELSE IF ~CanReadPtr(m, is_64, e + DictValueOff(is_64))
             THEN Continue({e, e + 8, e + DictValueOff(is_64)})
        ELSE [ret |-> read_ptr(m, is_64, e + DictValueOff(is_64)),
              reads |-> {e, e + 8, e + DictValueOff(is_64)}]

get_default_outfit_from_dict(m, is_64, dict_ptr) ==
    LET dict_fields == dict_ptr + ObjFieldsOff(is_64)
        a_entries   == dict_fields + DictEntriesOff(is_64)
        a_count     == dict_fields + DictCountOff(is_64)
        None        == [ret |-> 0, reads |-> {}]
    IN  IF dict_ptr = 0 THEN None
        ELSE IF ~CanReadPtr(m, is_64, a_entries) \/ ~CanRead32(m, a_count) THEN None
        ELSE
        LET entries_arr == read_ptr(m, is_64, a_entries)
            count       == read_int(m, a_count)
        IN  IF entries_arr = 0 \/ count <= 0 THEN None
            ELSE DictScanFrom(m, is_64, entries_arr + ArrayVectorOff(is_64), 0,
                              IF count < DICT_SCAN_MAX THEN count ELSE DICT_SCAN_MAX)

----------------------------------------------------------------------------
(* The dictionary decode on a synthetic dictionary: SpecDict. *)

DictPtr    == 96 * 256          \* 0x6000
EntriesArr == 112 * 256         \* 0x7000
ValueBase  == 128 * 256         \* 0x8000
NEntries   == DICT_SCAN_MAX + 2

\* The kinds of an entry: its hash code, key and value.
\*   0 not committed            1 hash 7, key 1 (another key's entry)
\*   2 hash 5, key 0            3 hash 0x7FFFFFFF, key 0
\*   4 hash -1, key 0 (empty)   5 hash 0x80000000, key 0 (empty)
\*   6 hash 0, key 0, value null
EntryKinds == 0..6
EntryHash(k) ==
    CASE k = 1 -> W(7) [] k = 2 -> W(5) [] k = 3 -> W(2147483647)
      [] k = 4 -> W(0 - 1) [] k = 5 -> W(0 - 2147483647 - 1) [] OTHER -> W(0)
EntryKey(k) == IF k = 1 THEN W(1) ELSE W(0)
EntryValue(k, i) == IF k = 6 THEN 0 ELSE ValueBase + 256 * k + 4 * i

EntryAddr(is_64, i) == EntriesArr + ArrayVectorOff(is_64) + i * DictEntrySize(is_64)

\* The dictionary object, and entries 0..NEntries-1 of the kinds kindOf[i].
DictMem(is_64, arr, count, kindOf) ==
    LET head == Merge(PutPtr(is_64, DictPtr + ObjFieldsOff(is_64) + DictEntriesOff(is_64), arr),
                      [x \in {DictPtr + ObjFieldsOff(is_64) + DictCountOff(is_64)} |-> W(count)])
        Entry(i) ==
            IF kindOf[i] = 0 THEN EmptyMem
            ELSE Merge([x \in {EntryAddr(is_64, i), EntryAddr(is_64, i) + 8} |->
                           IF x = EntryAddr(is_64, i) THEN EntryHash(kindOf[i])
                           ELSE EntryKey(kindOf[i])],
                       PutPtr(is_64, EntryAddr(is_64, i) + DictValueOff(is_64),
                              EntryValue(kindOf[i], i)))
        RECURSIVE Entries(_)
        Entries(i) == IF i < 0 THEN EmptyMem ELSE Merge(Entry(i), Entries(i - 1))
    IN  Merge(head, Entries(NEntries - 1))

\* Two entries of any kind at chosen places among entries of another key.
DictPlaces == {0, 1, DICT_SCAN_MAX - 1, DICT_SCAN_MAX, DICT_SCAN_MAX + 1}
DictCounts == {0 - 1, 0, 1, 2, DICT_SCAN_MAX, DICT_SCAN_MAX + 1, DICT_SCAN_MAX + 2}

InitDict ==
    /\ \E is_64 \in BOOLEAN :
       \E arr \in {0, EntriesArr} :
       \E count \in DictCounts :
       \E p, q \in DictPlaces :
       \E kp, kq \in EntryKinds :
          /\ memory = [pid |-> 1, base |-> 0, is_64 |-> is_64]
          /\ mem = DictMem(is_64, arr, count,
                           [i \in 0..(NEntries - 1) |->
                               IF i = p THEN kp ELSE IF i = q THEN kq ELSE 1])
    /\ now = 1
    /\ call = NoCall
    /\ scan = NoScan
    /\ proc = HostProcess
    /\ svc = NewService

GetDefaultOutfitFromDictCall ==
    /\ call.op = "none"
    /\ \E dict_ptr \in {0, DictPtr} :
          LET r == get_default_outfit_from_dict(mem, memory.is_64, dict_ptr) IN
          call' = [op |-> "_get_default_outfit_from_dict", args |-> <<dict_ptr>>,
                   ret |-> r.ret, reads |-> r.reads]
    /\ UNCHANGED <<mem, memory, now, scan, proc, svc>>

NextDict == GetDefaultOutfitFromDictCall

SpecDict == InitDict /\ [][NextDict]_vars

\* What the memory of the decoded dictionary holds.
StoredCount == c_int(mem[DictPtr + ObjFieldsOff(memory.is_64) + DictCountOff(memory.is_64)])
StoredArr   == AddrOf(mem[DictPtr + ObjFieldsOff(memory.is_64) + DictEntriesOff(memory.is_64)])
Decoded     == {i \in 0..(NEntries - 1) : i < StoredCount /\ i < 16 /\ StoredArr # 0}
Committed(i) == EntryAddr(memory.is_64, i) \in DOMAIN mem
StoredHashNegative(i) == mem[EntryAddr(memory.is_64, i)].hi >= 32768
StoredKeyIsZero(i) == mem[EntryAddr(memory.is_64, i) + 8] = W(0)
StoredValue(i) == AddrOf(mem[EntryAddr(memory.is_64, i) + DictValueOff(memory.is_64)])
Live(i) == Committed(i) /\ ~StoredHashNegative(i) /\ StoredKeyIsZero(i)

\* C7: the decode returns the value of the first of the first min(count, 16)
\* entries whose hash code is non-negative and whose key is 0, never reads
\* the key or the value of an entry with a negative hash code, and returns 0
\* when there is no such entry or count <= 0.
C7_FirstLiveEntryOfKeyZero ==
    (call.op = "_get_default_outfit_from_dict" /\ call.args[1] # 0) =>
        /\ \A i \in Decoded :
              (Live(i) /\ \A j \in Decoded : j < i => ~Live(j))
                  => call.ret = StoredValue(i)
        /\ (\A i \in Decoded : ~Live(i)) => call.ret = 0
        /\ StoredCount <= 0 => (call.ret = 0 /\ call.reads = {})
        /\ \A i \in 0..(NEntries - 1) :
              (Committed(i) /\ StoredHashNegative(i)) =>
                  /\ (EntryAddr(memory.is_64, i) + 8) \notin call.reads
                  /\ (EntryAddr(memory.is_64, i) + DictValueOff(memory.is_64)) \notin call.reads

\* The decode passed an empty slot that holds key 0 and returned the value of
\* a later live entry.
C7_Witness ==
    /\ call.op = "_get_default_outfit_from_dict"
    /\ \E i, j \in Decoded :
          /\ i < j
          /\ Committed(i) /\ StoredHashNegative(i) /\ StoredKeyIsZero(i)
          /\ EntryAddr(memory.is_64, i) \in call.reads
          /\ Live(j)
          /\ call.ret = StoredValue(j)
          /\ call.ret # 0

----------------------------------------------------------------------------
(* AmongUsDataService._get_player_position *)

PC_FIELDS_NetTransform == 144
CNT_FIELDS_lastPosition == 60
CNT_FIELDS_lastPosSent == 68

\* A faulty variant: the fallback taken as soon as one component is zero.
PrimaryIsUnset_EitherZero(x, y) == F32IsZero(x) \/ F32IsZero(y)
\* "if x == 0.0 and y == 0.0"
PrimaryIsUnset(x, y) == F32IsZero(x) /\ F32IsZero(y)

\* The result is None, written << >>, or the pair (x, y).
get_player_position(m, is_64, player_control_ptr) ==
    LET fields_off == ObjFieldsOff(is_64)
        a_nt       == player_control_ptr + fields_off + PC_FIELDS_NetTransform
    IN  IF player_control_ptr = 0 THEN << >>
        ELSE IF ~CanReadPtr(m, is_64, a_nt) THEN << >>
        ELSE IF read_ptr(m, is_64, a_nt) = 0 THEN << >>
        ELSE
        LET cnt_fields == read_ptr(m, is_64, a_nt) + fields_off
            a_pos      == cnt_fields + CNT_FIELDS_lastPosition
            a_sent     == cnt_fields + CNT_FIELDS_lastPosSent
        IN  IF ~CanRead32(m, a_pos) \/ ~CanRead32(m, a_pos + 4) THEN << >>
            ELSE IF ~PrimaryIsUnset(read_f32(m, a_pos), read_f32(m, a_pos + 4))
                 THEN <<read_f32(m, a_pos), read_f32(m, a_pos + 4)>>
            ELSE IF ~CanRead32(m, a_sent) \/ ~CanRead32(m, a_sent + 4) THEN << >>
            ELSE <<read_f32(m, a_sent), read_f32(m, a_sent + 4)>>

----------------------------------------------------------------------------
(* The position of a synthetic PlayerControl: SpecPos. *)

PlayerPtr    == 144 * 256       \* 0x9000
TransformPtr == 160 * 256       \* 0xA000

\* +0.0, -0.0, 3.5, -2.25
F32Values == {[hi |-> 0, lo |-> 0], [hi |-> 32768, lo |-> 0],
              [hi |-> 16480, lo |-> 0], [hi |-> 49168, lo |-> 0]}

PrimaryAddr(is_64)   == TransformPtr + ObjFieldsOff(is_64) + 60
SecondaryAddr(is_64) == TransformPtr + ObjFieldsOff(is_64) + 68

\* nt: 0 no pointer cell, 1 a null pointer, 2 the transform; sent: whether
\* the secondary slot is committed.
PosMem(is_64, nt, px, py, sx, sy, sent) ==
    LET a_nt == PlayerPtr + ObjFieldsOff(is_64) + 144
        link == IF nt = 0 THEN EmptyMem
                ELSE PutPtr(is_64, a_nt, IF nt = 1 THEN 0 ELSE TransformPtr)
        prim == [x \in {PrimaryAddr(is_64), PrimaryAddr(is_64) + 4} |->
                    IF x = PrimaryAddr(is_64) THEN px ELSE py]
        sec  == IF sent
                THEN [x \in {SecondaryAddr(is_64), SecondaryAddr(is_64) + 4} |->
                         IF x = SecondaryAddr(is_64) THEN sx ELSE sy]
                ELSE EmptyMem
    IN  Merge(link, Merge(prim, sec))

InitPos ==
    /\ \E is_64 \in BOOLEAN :
       \E nt \in {0, 1, 2} :
       \E px, py, sx, sy \in F32Values :
       \E sent \in BOOLEAN :
          /\ memory = [pid |-> 1, base |-> 0, is_64 |-> is_64]
          /\ mem = PosMem(is_64, nt, px, py, sx, sy, sent)
    /\ now = 1
    /\ call = NoCall
    /\ scan = NoScan
    /\ proc = HostProcess
    /\ svc = NewService

GetPlayerPositionCall ==
    /\ call.op = "none"
    /\ \E player_control_ptr \in {0, PlayerPtr} :
          call' = [op |-> "_get_player_position", args |-> <<player_control_ptr>>,
                   ret |-> get_player_position(mem, memory.is_64, player_control_ptr)]
    /\ UNCHANGED <<mem, memory, now, scan, proc, svc>>

NextPos == GetPlayerPositionCall

SpecPos == InitPos /\ [][NextPos]_vars

\* The player object is readable: its transform pointer and both slots.
PlayerReadable ==
    LET a_nt == PlayerPtr + ObjFieldsOff(memory.is_64) + 144 IN
    /\ a_nt \in DOMAIN mem
    /\ AddrOf(mem[a_nt]) = TransformPtr
    /\ SecondaryAddr(memory.is_64) \in DOMAIN mem
StoredPrimary ==
    <<mem[PrimaryAddr(memory.is_64)], mem[PrimaryAddr(memory.is_64) + 4]>>
StoredSecondary ==
    <<mem[SecondaryAddr(memory.is_64)], mem[SecondaryAddr(memory.is_64) + 4]>>
IsZeroBits(c) == c = [hi |-> 0, lo |-> 0] \/ c = [hi |-> 32768, lo |-> 0]

\* C8: for a readable player the position is the primary pair, unless both
\* of its components are zero, and then it is the secondary pair; a primary
\* pair with one zero component is returned as it is.
C8_ZeroTriggeredFallback ==
    (call.op = "_get_player_position" /\ call.args[1] # 0 /\ PlayerReadable) =>
        call.ret = IF IsZeroBits(StoredPrimary[1]) /\ IsZeroBits(StoredPrimary[2])
                   THEN StoredSecondary
                   ELSE StoredPrimary

\* A primary pair with exactly one zero component came back unchanged.
C8_Witness ==
    /\ call.op = "_get_player_position"
    /\ call.args[1] # 0
    /\ PlayerReadable
    /\ IsZeroBits(StoredPrimary[1])
    /\ ~IsZeroBits(StoredPrimary[2])
    /\ StoredSecondary # StoredPrimary
    /\ call.ret = StoredPrimary

----------------------------------------------------------------------------
(* MemoryClient.__init__ and _detect_architecture *)

\* The three answers in the order the code asks for them: pymem's
\* is_64_bit (the host's pointer size if it raises), IsWow64Process, and the
\* high dword of the pointer at base + 0x10.
detect_architecture(p, m, base) ==
    LET first  == IF p.os_is_64 = "raise" THEN p.host_64 ELSE p.os_is_64 = "yes"
        second == IF ~first /\ p.wow64 = "no" /\ p.host_64 THEN TRUE ELSE first
        third  == IF ~second /\ CanRead32(m, base + 16 + 4) /\ read_u32(m, base + 16 + 4) # W(0)
                  THEN TRUE ELSE second
    IN  third

MemoryClient(p, m, base) ==
    [pid |-> p.pid, base |-> base, is_64 |-> detect_architecture(p, m, base)]

Attached(mc) == mc.pid # 0

----------------------------------------------------------------------------
(* MetaIndex: metadata.json, a static document. *)

RvaHud    == 1 * 256
RvaReport == 2 * 256
RvaAction == 3 * 256
RvaCPD    == 4 * 256
RvaReportString == 11 * Half

\* get_typeinfo_rva_by_name / get_typeinfo_rva_by_substrings on this document;
\* it has no PassiveButton and no DestroyableSingleton<HudManager>.
MetaTypeinfoRva(key) ==
    CASE key = "hudmanager" -> RvaHud
      [] key = "reportbutton" -> RvaReport
      [] key = "actionbutton" -> RvaAction
      [] key = "cachedplayerdata" -> RvaCPD
      [] OTHER -> 0
MetaStringRva(k) == IF k = "report" THEN RvaReportString ELSE 0

\* MetaIndex.get_string_va: "(self._memory.base + rva) if self._memory else rva"
MetaStringVa(mc, k) ==
    IF MetaStringRva(k) = 0 THEN 0
    ELSE IF Attached(mc) THEN mc.base + MetaStringRva(k)
    ELSE MetaStringRva(k)

----------------------------------------------------------------------------------------------------------------------------------------
(* AmongUsDataService: metadata and class lookups.  An operation takes the  *)
(* service record s and returns the record it leaves, its value, and        *)
(* whether it raised.  While the service is attached its MetaIndex is       *)
(* loaded, and _typeinfo_cache holds what the document answers anyway: the  *)
(* record does not carry it.                                                *)

Ret(s, v) == [s |-> s, v |-> v, raised |-> FALSE]
Raise(s)  == [s |-> s, v |-> 0, raised |-> TRUE]

\* _get_typeinfo_rva_by_name and _find_typeinfo_rva_by_substrings
get_typeinfo_rva(s, mc, key) == Ret(s, MetaTypeinfoRva(key))

get_string_va(s, mc, k) ==
    IF k \in DOMAIN s.stringlit_cache THEN Ret(s, s.stringlit_cache[k])
    ELSE LET va == MetaStringVa(mc, k) IN
         Ret(IF va # 0 THEN [s EXCEPT !.stringlit_cache = Put(@, k, va)] ELSE s, va)

\* A faulty variant: the lookup without its cache.
get_class_from_typeinfo_Uncached(s, mc, m, rva) ==
    IF ~Attached(mc) THEN Raise(s)
    ELSE IF ~CanReadPtr(m, mc.is_64, mc.base + rva) THEN Raise(s)
    ELSE Ret(s, read_ptr(m, mc.is_64, mc.base + rva))

\* _get_class_from_typeinfo: with no MemoryClient "self.memory.read_ptr"
\* raises AttributeError, on an uncommitted slot read_ptr raises.
get_class_from_typeinfo(s, mc, m, rva) ==
    IF rva \in DOMAIN s.class_cache THEN Ret(s, s.class_cache[rva])
    ELSE IF ~Attached(mc) THEN Raise(s)
    ELSE IF ~CanReadPtr(m, mc.is_64, mc.base + rva) THEN Raise(s)
    ELSE Ret([s EXCEPT !.class_cache = Put(@, rva, read_ptr(m, mc.is_64, mc.base + rva))],
             read_ptr(m, mc.is_64, mc.base + rva))

get_class_from_dotnet(s, mc, m, name) ==
    IF MetaTypeinfoRva(name) = 0 THEN Ret(s, 0)
    ELSE get_class_from_typeinfo(s, mc, m, MetaTypeinfoRva(name))

\* Il2CppScanner.get_class_from_typeinfo
scanner_get_class_from_typeinfo(mc, m, rva) ==
    IF rva = 0 THEN 0
    ELSE IF ~CanReadPtr(m, mc.is_64, mc.base + rva) THEN 0
    ELSE read_ptr(m, mc.is_64, mc.base + rva)

----------------------------------------------------------------------------
(* The scans the resolvers run.  The service's own loops repeat the         *)
(* scanner's, so one operator stands for both.                              *)

\* read_u8: one byte of a little-endian cell.
CanRead8(m, a) == (a - (a % 4)) \in DOMAIN m
read_u8(m, a) ==
    LET c == m[a - (a % 4)] IN
    CASE a % 4 = 0 -> c.lo % 256
      [] a % 4 = 1 -> c.lo \div 256
      [] a % 4 = 2 -> c.hi % 256
      [] OTHER     -> c.hi \div 256

STATIC_FIELDS_CANDIDATES == <<184, 176, 216, 208, 92>>

get_static_fields_ptr(mc, m, klass) ==
    LET hits == {i \in 1..Len(STATIC_FIELDS_CANDIDATES) :
                    /\ CanReadPtr(m, mc.is_64, klass + STATIC_FIELDS_CANDIDATES[i])
                    /\ read_ptr(m, mc.is_64, klass + STATIC_FIELDS_CANDIDATES[i]) # 0}
    IN  IF klass = 0 \/ hits = {} THEN 0
        ELSE read_ptr(m, mc.is_64, klass + STATIC_FIELDS_CANDIDATES[Min(hits)])

\* The four default regions: 16 MiB each, from base + 0x01000000.
DefaultRegionsStart(base) == base + 256 * Half
DefaultRegionsEnd(base)   == base + 5 * 256 * Half
InDefaultRegions(mc, a) ==
    /\ a >= DefaultRegionsStart(mc.base)
    /\ a < DefaultRegionsEnd(mc.base)
    /\ (a - DefaultRegionsStart(mc.base)) % PtrSize(mc.is_64) = 0

\* scan_heap_for_class_instances over the default regions, no deadline hit:
\* the positions that hold target_klass, lowest first.
HeapInstances(mc, m, target_klass) ==
    IF target_klass = 0 THEN {}
    ELSE {cur \in DOMAIN m : /\ InDefaultRegions(mc, cur)
                             /\ CanReadPtr(m, mc.is_64, cur)
                             /\ read_ptr(m, mc.is_64, cur) = target_klass}

object_fields_contains_ptr(mc, m, obj_ptr, target_ptr, span) ==
    LET base == obj_ptr + ObjFieldsOff(mc.is_64)
        end  == base + (IF span > 64 THEN span ELSE 64)
    IN  \E cur \in DOMAIN m :
           /\ cur >= base /\ cur < end /\ (cur - base) % PtrSize(mc.is_64) = 0
           /\ CanReadPtr(m, mc.is_64, cur)
           /\ read_ptr(m, mc.is_64, cur) = target_ptr

XREF_FIELD_OFFSETS == {32, 40, 48, 56, 64, 72, 80, 96, 112, 128}

\* find_button_by_string_xref: the lowest position that holds str_va and
\* lies at one of the field offsets of an object of a button class; the
\* offsets are tried in ascending order.
find_button_by_string_xref(mc, m, str_va, btn_klasses) ==
    LET Owner(cur, foff) == cur - foff - ObjFieldsOff(mc.is_64)
        IsButton(obj_base) ==
            /\ obj_base > 0
            /\ CanReadPtr(m, mc.is_64, obj_base)
            /\ read_ptr(m, mc.is_64, obj_base) # 0
            /\ read_ptr(m, mc.is_64, obj_base) \in btn_klasses
        Offs(cur) == {foff \in XREF_FIELD_OFFSETS : IsButton(Owner(cur, foff))}
        hits == {cur \in DOMAIN m : /\ InDefaultRegions(mc, cur)
                                    /\ CanReadPtr(m, mc.is_64, cur)
                                    /\ read_ptr(m, mc.is_64, cur) = str_va
                                    /\ Offs(cur) # {}}
    IN  IF str_va = 0 \/ hits = {} THEN 0
        ELSE Owner(Min(hits), Min(Offs(Min(hits))))

\* class_has_methods: at least min(2, len(methods)) of the words of the
\* 0x10000 bytes from klass are in methods.
class_has_methods(mc, m, klass, methods) ==
    LET hits == {addr \in DOMAIN m :
                    /\ addr >= klass /\ addr < klass + Half
                    /\ (addr - klass) % PtrSize(mc.is_64) = 0
                    /\ CanReadPtr(m, mc.is_64, addr)
                    /\ read_ptr(m, mc.is_64, addr) \in methods}
    IN  /\ klass # 0
        /\ methods # {}
        /\ Cardinality(hits) >= (IF Cardinality(methods) < 2 THEN Cardinality(methods) ELSE 2)

\* iter_heap_regions: the committed read-write regions of the process, here
\* its data segment and its heap.
DataStart(base) == base + 13 * Half
RWRegions(base) ==
    {[start |-> DataStart(base), size |-> Half],
     [start |-> DefaultRegionsStart(base), size |-> Half]}

\* find_object_by_method_signature: the lowest position of a read-write
\* region whose word is a class of the assembly that has the methods.
find_object_by_method_signature(mc, m, methods) ==
    LET asm_max == Max({mc.base + 5 * 256 * Half} \cup {x + 16 * Half : x \in methods})
        hits == {cur \in DOMAIN m :
                    /\ \E r \in RWRegions(mc.base) :
                          /\ cur >= r.start /\ cur < r.start + r.size
                          /\ (cur - r.start) % PtrSize(mc.is_64) = 0
                    /\ CanReadPtr(m, mc.is_64, cur)
                    /\ read_ptr(m, mc.is_64, cur) # 0
                    /\ read_ptr(m, mc.is_64, cur) >= mc.base
                    /\ read_ptr(m, mc.is_64, cur) < asm_max
                    /\ class_has_methods(mc, m, read_ptr(m, mc.is_64, cur), methods)}
    IN  IF methods = {} \/ hits = {} THEN 0 ELSE Min(hits)

\* scan_object_field_ptrs: the positions of the non-zero pointers among the
\* fields of obj_ptr (the model's objects have fewer than 512).
FieldPtrPositions(mc, m, obj_ptr, span) ==
    LET base == obj_ptr + ObjFieldsOff(mc.is_64)
        end  == base + (IF span > 256 THEN span ELSE 256)
    IN  {cur \in DOMAIN m : /\ cur >= base /\ cur < end
                            /\ (cur - base) % PtrSize(mc.is_64) = 0
                            /\ CanReadPtr(m, mc.is_64, cur)
                            /\ read_ptr(m, mc.is_64, cur) # 0}

----------------------------------------------------------------------------
(* AmongUsDataService: the HUD and report-button resolvers.  A resolver     *)
(* returns the record it leaves, its value, and whether the value is the    *)
(* cached pointer.  It gets, as an input, how far its scan deadline lets it *)
(* come: a scan that the deadline cuts finds nothing.                       *)

Res(s, v, cached) == [s |-> s, v |-> v, cached |-> cached]

\* F(v), with v evaluated once.
Bind(v, F(_)) == CHOOSE y \in {F(x) : x \in {v}} : TRUE

HUD_DS_KEY == "destroyablesingleton|hudmanager"
BUTTON_NAMES == <<"reportbutton", "actionbutton", "passivebutton">>
REPORT_SCAN_MIN_INTERVAL == 3

\* "k = self.memory.read_ptr(self._hud_ptr_cache); if k == hud_klass"
HudCacheValid(s, mc, m, hud_klass) ==
    /\ s.hud_ptr_cache # 0
    /\ CanReadPtr(m, mc.is_64, s.hud_ptr_cache)
    /\ read_ptr(m, mc.is_64, s.hud_ptr_cache) = hud_klass

\* The class of DestroyableSingleton<HudManager>, if the metadata names it.
hud_singleton_class(s, mc, m) ==
    Bind(get_typeinfo_rva(s, mc, HUD_DS_KEY), LAMBDA r2 :
        IF r2.v = 0 THEN Ret(r2.s, 0) ELSE get_class_from_typeinfo(r2.s, mc, m, r2.v))

\* The searches for the HUD in their order: the static fields of the
\* singleton class (span 0x400), those of HudManager (span 0x2000), the heap
\* (limit 4, of which the first hit is taken).
hud_search(mc, m, ds_klass, hud_klass, in_time) ==
    Bind(get_static_fields_ptr(mc, m, ds_klass), LAMBDA ds_static :
    Bind(IF ds_klass = 0 \/ ds_static = 0 THEN 0
         ELSE scan_fields_for_class(m, mc.is_64, ds_static, 4 * 256, hud_klass),
         LAMBDA ds_inst :
    IF ds_inst # 0 THEN ds_inst
    ELSE
    Bind(get_static_fields_ptr(mc, m, hud_klass), LAMBDA static_fields :
    Bind(IF static_fields = 0 THEN 0
         ELSE scan_fields_for_class(m, mc.is_64, static_fields, 32 * 256, hud_klass),
         LAMBDA inst :
    IF inst # 0 THEN inst
    ELSE
    Bind(IF in_time THEN HeapInstances(mc, m, hud_klass) ELSE {}, LAMBDA insts :
    IF insts # {} THEN Min(insts) ELSE 0)))))

get_hudmanager_instance_ptr(s, mc, m, in_time) ==
    Bind(get_class_from_dotnet(s, mc, m, "hudmanager"), LAMBDA r1 :
    IF r1.raised \/ r1.v = 0 THEN Res(r1.s, 0, FALSE)
    ELSE IF HudCacheValid(r1.s, mc, m, r1.v) THEN Res(r1.s, r1.s.hud_ptr_cache, TRUE)
    ELSE
    Bind(hud_singleton_class(r1.s, mc, m), LAMBDA r3 :
    IF r3.raised THEN Res(r3.s, 0, FALSE)
    ELSE
    Bind(hud_search(mc, m, r3.v, r1.v, in_time), LAMBDA inst :
    IF inst = 0 THEN Res(r3.s, 0, FALSE)
    ELSE Res([r3.s EXCEPT !.hud_ptr_cache = inst], inst, FALSE))))

\* What one pass of a loop over the button names does with a class k:
\*   cached  the class check of the cached pointer
\*   fields  the scan of the HUD's fields, span 0x4000
\*   heap    the heap scan, limit 8, of which the first hit is taken
\*   label   the heap scan, limit 64, for an instance that refers to str_va
Probe(mc, m, q, i, k) ==
    CASE q.op = "cached" -> IF q.klass = k THEN q.ptr ELSE 0
      [] q.op = "fields" -> scan_fields_for_class(m, mc.is_64, q.base, 64 * 256, k)
      [] q.op = "heap" ->
            IF i > q.alive THEN 0
            ELSE Bind(HeapInstances(mc, m, k), LAMBDA insts :
                      IF insts # {} THEN Min(insts) ELSE 0)
      [] OTHER ->
            IF 4 + i > q.alive THEN 0
            ELSE Bind({inst \in HeapInstances(mc, m, k) :
                          object_fields_contains_ptr(mc, m, inst, q.str_va, 4 * 256)},
                      LAMBDA insts : IF insts # {} THEN Min(insts) ELSE 0)

\* "for tname in (...): k = self._get_class_from_dotnet(tname)", left at the
\* first class whose probe finds something, or by the lookup raising.
RECURSIVE ForButtonNames(_, _, _, _, _)
ForButtonNames(s, mc, m, i, q) ==
    IF i > Len(BUTTON_NAMES) THEN Ret(s, 0)
    ELSE
    Bind(get_class_from_dotnet(s, mc, m, BUTTON_NAMES[i]), LAMBDA r :
    IF r.raised THEN Raise(r.s)
    ELSE IF r.v = 0 THEN ForButtonNames(r.s, mc, m, i + 1, q)
    ELSE
    Bind(Probe(mc, m, q, i, r.v), LAMBDA p :
    IF p # 0 THEN Ret(r.s, p) ELSE ForButtonNames(r.s, mc, m, i + 1, q)))

\* The non-null classes of all the button names.
RECURSIVE ButtonClasses(_, _, _, _)
ButtonClasses(s, mc, m, i) ==
    IF i > Len(BUTTON_NAMES) THEN [s |-> s, ks |-> {}, raised |-> FALSE]
    ELSE
    Bind(get_class_from_dotnet(s, mc, m, BUTTON_NAMES[i]), LAMBDA r :
    IF r.raised THEN [s |-> r.s, ks |-> {}, raised |-> TRUE]
    ELSE [ButtonClasses(r.s, mc, m, i + 1) EXCEPT
             !.ks = @ \cup (IF r.v # 0 THEN {r.v} ELSE {})])

\* _find_button_by_string_xref (timed step `step`)
find_button_by_xref(s, mc, m, alive, step) ==
    Bind(get_string_va(s, mc, "report"), LAMBDA r0 :
    IF r0.v = 0 THEN Ret(r0.s, 0)
    ELSE
    Bind(ButtonClasses(r0.s, mc, m, 1), LAMBDA c :
    IF c.raised \/ c.ks = {} \/ alive < step THEN Ret(c.s, 0)
    ELSE Ret(c.s, find_button_by_string_xref(mc, m, r0.v, c.ks))))

\* _find_report_button_by_label: timed step 4, then 5..7
find_report_button_by_label(s, mc, m, alive) ==
    Bind(get_string_va(s, mc, "report").v, LAMBDA str_va :
    Bind(find_button_by_xref(s, mc, m, alive, 4), LAMBDA x :
    IF x.v # 0 \/ str_va = 0 THEN x
    ELSE ForButtonNames(x.s, mc, m, 1,
                        [op |-> "label", alive |-> alive, str_va |-> str_va])))

REPORT_METHOD_RVAS == {4176 * Half + 1984, 4176 * Half + 2160}
SEED_METHOD_RVAS == <<4176 * Half + 14368, 4176 * Half + 752,
                      4176 * Half + 15472, 4176 * Half + 3664>>

\* The seed strategy: the first field of the first seed object that refers
\* to an object whose class has the report methods.
find_by_seeds(mc, m) ==
    LET report_methods == {mc.base + x : x \in REPORT_METHOD_RVAS}
        Good(pos) ==
            Bind(read_ptr(m, mc.is_64, pos), LAMBDA ref :
            /\ CanReadPtr(m, mc.is_64, ref)
            /\ read_ptr(m, mc.is_64, ref) # 0
            /\ read_ptr(m, mc.is_64, ref) >= mc.base
            /\ read_ptr(m, mc.is_64, ref) < mc.base + 5 * 256 * Half
            /\ class_has_methods(mc, m, read_ptr(m, mc.is_64, ref), report_methods))
        Refs(seed) == {pos \in FieldPtrPositions(mc, m, seed, 18 * 256) : Good(pos)}
    IN  Bind([i \in 1..Len(SEED_METHOD_RVAS) |->
                 Bind(find_object_by_method_signature(
                          mc, m, {mc.base + SEED_METHOD_RVAS[i]}),
                      LAMBDA seed : IF seed = 0 THEN {} ELSE Refs(seed))],
             LAMBDA refs :
             Bind({i \in DOMAIN refs : refs[i] # {}}, LAMBDA good :
             IF good = {} THEN 0 ELSE read_ptr(m, mc.is_64, Min(refs[Min(good)]))))

\* The strategies behind the rate limit, in the order the code tries them;
\* timed steps 1..3 heap scans, 4..7 label, 8 xref, 9 signature, 10 seeds.
TimedSteps == 10
\* Where the deadline may fall: at once, after the heap scans, after the
\* cross-reference search, or never.
Cuts == {0, 3, 8, TimedSteps}

report_button_slow_path(s, mc, m, alive) ==
    LET Found(s1, p) == Res([s1 EXCEPT !.report_ptr_cache = p], p, FALSE) IN
    Bind(ForButtonNames(s, mc, m, 1, [op |-> "heap", alive |-> alive]), LAMBDA a :
    IF a.raised THEN Res(a.s, 0, FALSE)
    ELSE IF a.v # 0 THEN Found(a.s, a.v)
    ELSE
    Bind(find_report_button_by_label(a.s, mc, m, alive), LAMBDA b :
    IF b.raised THEN Res(b.s, 0, FALSE)
    ELSE IF b.v # 0 THEN Found(b.s, b.v)
    ELSE
    Bind(find_button_by_xref(b.s, mc, m, alive, 8), LAMBDA x :
    IF x.v # 0 THEN Found(x.s, x.v)
    ELSE
    Bind(IF alive >= 9
         THEN find_object_by_method_signature(
                  mc, m, {mc.base + y : y \in REPORT_METHOD_RVAS})
         ELSE 0, LAMBDA sig :
    IF sig # 0 THEN Found(x.s, sig)
    ELSE
    Bind(IF alive >= 10 THEN find_by_seeds(mc, m) ELSE 0, LAMBDA seed :
    IF seed # 0 THEN Found(x.s, seed) ELSE Res(x.s, 0, FALSE))))))

\* The class check of the cached report button.
report_cache_check(s, mc, m) ==
    IF s.report_ptr_cache # 0 /\ CanReadPtr(m, mc.is_64, s.report_ptr_cache)
    THEN ForButtonNames(s, mc, m, 1,
                        [op |-> "cached", ptr |-> s.report_ptr_cache,
                         klass |-> read_ptr(m, mc.is_64, s.report_ptr_cache)])
    ELSE Ret(s, 0)

get_report_button_ptr(s, mc, m, t, hud_in_time, alive) ==
    Bind(report_cache_check(s, mc, m), LAMBDA c1 :
    IF ~c1.raised /\ c1.v # 0 THEN Res(c1.s, c1.v, TRUE)
    ELSE
    Bind(get_hudmanager_instance_ptr(c1.s, mc, m, hud_in_time), LAMBDA h :
    Bind(IF h.v = 0 THEN Ret(h.s, 0)
         ELSE ForButtonNames(h.s, mc, m, 1,
                             [op |-> "fields", base |-> h.v + ObjFieldsOff(mc.is_64)]),
         LAMBDA f :
    IF f.raised THEN Res(f.s, 0, FALSE)
    ELSE IF f.v # 0 THEN Res([f.s EXCEPT !.report_ptr_cache = f.v], f.v, FALSE)
    ELSE IF t - f.s.report_scan_last < REPORT_SCAN_MIN_INTERVAL THEN Res(f.s, 0, FALSE)
    ELSE report_button_slow_path([f.s EXCEPT !.report_scan_last = t], mc, m, alive))))

\* _read_bool_candidates: the offsets 0x20, 0x24, .. below 0x200 whose byte
\* is 0 or 1.
BoolCandidates(mc, m, obj_ptr) ==
    LET base == obj_ptr + ObjFieldsOff(mc.is_64) IN
    {off \in {x - base + (base % 4) : x \in DOMAIN m} :
        /\ off >= 32 /\ off < 512 /\ (off - 32) % 4 = 0
        /\ read_u8(m, base + off) \in {0, 1}}

\* "rb = self._report_ptr_cache or self._get_report_button_ptr()"
ReportButtonOf(s, mc, m, t, hud_in_time, alive) ==
    IF s.report_ptr_cache # 0 THEN Res(s, s.report_ptr_cache, TRUE)
    ELSE get_report_button_ptr(s, mc, m, t, hud_in_time, alive)

\* is_report_button_active: active is 1, 0 or None; error says whether the
\* diagnostics carry an "error" entry; off is the offset of the byte the
\* answer was read from.
is_report_button_active(s, mc, m, t, hud_in_time, alive) ==
    Bind(ReportButtonOf(s, mc, m, t, hud_in_time, alive), LAMBDA r :
    LET rb    == r.v
        base  == r.v + ObjFieldsOff(mc.is_64)
        off0  == r.s.report_bool_off_cache
        fast  == off0 # NoneVal /\ CanRead8(m, base + off0)
        s1    == IF off0 # NoneVal /\ ~fast
                 THEN [r.s EXCEPT !.report_bool_off_cache = NoneVal] ELSE r.s
        Out(s2, active, error, off) ==
            [s |-> s2, active |-> active, error |-> error, rb |-> rb,
             cached |-> r.cached, off |-> off]
    IN  IF rb = 0 THEN Out(r.s, NoneVal, TRUE, NoneVal)
        ELSE IF fast
             THEN Out(r.s, IF read_u8(m, base + off0) # 0 THEN 1 ELSE 0, FALSE, off0)
        ELSE Bind(BoolCandidates(mc, m, rb), LAMBDA cands :
             IF cands = {} THEN Out(s1, NoneVal, FALSE, NoneVal)
             ELSE Out([s1 EXCEPT !.report_bool_off_cache = Min(cands)],
                      read_u8(m, base + Min(cands)), FALSE, Min(cands))))

----------------------------------------------------------------------------
(* AmongUsDataService: CachedPlayerData *)

\* Offsets.CACHED_PLAYERDATA_TYPEINFO_RVA; the metadata names the same slot.
CACHED_PLAYERDATA_TYPEINFO_RVA == RvaCPD

Drop(f, k) == [x \in (DOMAIN f) \ {k} |-> f[x]]

get_cached_playerdata_class(s, mc, m) ==
    IF ~Attached(mc) THEN Ret(s, 0)
    ELSE IF s.cached_playerdata_class # NoneVal /\ s.cached_playerdata_class # 0
         THEN Ret(s, s.cached_playerdata_class)
    ELSE
    Bind(get_class_from_typeinfo(s, mc, m, CACHED_PLAYERDATA_TYPEINFO_RVA), LAMBDA r1 :
    Bind(IF ~r1.raised /\ r1.v # 0 THEN r1
         ELSE get_class_from_dotnet(r1.s, mc, m, "cachedplayerdata"), LAMBDA r2 :
    IF r2.raised \/ r2.v = 0 THEN Ret(r2.s, 0)
    ELSE Ret([r2.s EXCEPT !.cached_playerdata_class = r2.v], r2.v)))

\* check_at: the pointer at the offset, if it refers to an object of klass.
check_at(mc, m, pc_fields, klass, offset) ==
    IF /\ CanReadPtr(m, mc.is_64, pc_fields + offset)
       /\ read_ptr(m, mc.is_64, pc_fields + offset) # 0
       /\ CanReadPtr(m, mc.is_64, read_ptr(m, mc.is_64, pc_fields + offset))
       /\ read_ptr(m, mc.is_64, read_ptr(m, mc.is_64, pc_fields + offset)) = klass
    THEN read_ptr(m, mc.is_64, pc_fields + offset) ELSE 0

\* A faulty variant: a cached offset that fails its check stays cached when
\* the search finds nothing.
get_cached_playerdata_ptr_KeepsStale(s, mc, m, pc_ptr) ==
    IF pc_ptr = 0 \/ ~Attached(mc) THEN Ret(s, 0)
    ELSE
    Bind(get_cached_playerdata_class(s, mc, m), LAMBDA c :
    LET is64 == mc.is_64
        pc_fields == pc_ptr + ObjFieldsOff(is64)
        known == is64 \in DOMAIN c.s.cached_playerdata_ptr_off
    IN  IF c.v = 0 THEN Ret(c.s, 0)
        ELSE IF known /\ check_at(mc, m, pc_fields, c.v,
                                  c.s.cached_playerdata_ptr_off[is64]) # 0
             THEN Ret(c.s, check_at(mc, m, pc_fields, c.v,
                                    c.s.cached_playerdata_ptr_off[is64]))
        ELSE Bind({off \in {x - pc_fields : x \in DOMAIN m} :
                      /\ off >= 0 /\ off < 64 * PtrSize(is64)
                      /\ off % PtrSize(is64) = 0
                      /\ check_at(mc, m, pc_fields, c.v, off) # 0}, LAMBDA offs :
             IF offs = {} THEN Ret(c.s, 0)
             ELSE Ret([c.s EXCEPT !.cached_playerdata_ptr_off = Put(@, is64, Min(offs))],
                      check_at(mc, m, pc_fields, c.v, Min(offs)))))

get_cached_playerdata_ptr(s, mc, m, pc_ptr) ==
    IF pc_ptr = 0 \/ ~Attached(mc) THEN Ret(s, 0)
    ELSE
    Bind(get_cached_playerdata_class(s, mc, m), LAMBDA c :
    LET is64 == mc.is_64
        pc_fields == pc_ptr + ObjFieldsOff(is64)
        known == is64 \in DOMAIN c.s.cached_playerdata_ptr_off
        s1    == [c.s EXCEPT !.cached_playerdata_ptr_off = Drop(@, is64)]
    IN  IF c.v = 0 THEN Ret(c.s, 0)
        ELSE IF known /\ check_at(mc, m, pc_fields, c.v,
                                  c.s.cached_playerdata_ptr_off[is64]) # 0
             THEN Ret(c.s, check_at(mc, m, pc_fields, c.v,
                                    c.s.cached_playerdata_ptr_off[is64]))
        ELSE Bind({off \in {x - pc_fields : x \in DOMAIN m} :
                      /\ off >= 0 /\ off < 64 * PtrSize(is64)
                      /\ off % PtrSize(is64) = 0
                      /\ check_at(mc, m, pc_fields, c.v, off) # 0}, LAMBDA offs :
             IF offs = {} THEN Ret(s1, 0)
             ELSE Ret([s1 EXCEPT !.cached_playerdata_ptr_off = Put(@, is64, Min(offs))],
                      check_at(mc, m, pc_fields, c.v, Min(offs)))))

----------------
(* The game: a process image, and what the game writes while it runs. *)

Base == 16 * Half               \* GameAssembly.dll
KHud    == Base + 1 * Half      \* Il2CppClass of HudManager
KReport == Base + 3 * Half      \*   of ReportButton
KAction == Base + 5 * Half      \*   of ActionButton
KCPD    == Base + 7 * Half      \*   of CachedPlayerData
HudStatics == Base + 9 * Half
HeapStart  == Base + 256 * Half
HudObj  == HeapStart + 1 * 256
PcObj   == HeapStart + 8 * 256
CpdObj  == HeapStart + 10 * 256
\* The report button lives on the heap or in the data segment.
ButtonAt(where) == IF where = "heap" THEN HeapStart + 4 * 256 ELSE Base + 13 * Half + 64

Cell(a, c) == [x \in {a} |-> c]
RECURSIVE MergeAll(_)
MergeAll(fs) == IF fs = <<>> THEN EmptyMem ELSE Merge(Head(fs), MergeAll(Tail(fs)))

\* f.statics  HudManager's static fields refer to the HUD
\* f.field    a field of the HUD refers to the report button
\* f.where    where the report button lives
\* f.label    a field of the button refers to the string literal "report"
\* f.methods  the button's class lists the two report methods
\* f.lazy     ReportButton's TypeInfo slot is still null
Image(is_64, f) ==
    LET fo  == ObjFieldsOff(is_64)
        btn == ButtonAt(f.where)
        P(a, p) == PutPtr(is_64, a, p)
    IN  MergeAll(<<
            P(Base + RvaHud, KHud),
            P(Base + RvaReport, IF f.lazy THEN 0 ELSE KReport),
            P(Base + RvaAction, KAction),
            P(Base + RvaCPD, KCPD),
            IF f.statics THEN Merge(P(KHud + 184, HudStatics), P(HudStatics, HudObj))
            ELSE EmptyMem,
            P(HudObj, KHud),
            IF f.field THEN P(HudObj + fo + 32, btn) ELSE EmptyMem,
            P(btn, KReport),
            Cell(btn + fo + 40, W(1)),
            Cell(btn + fo + 44, W(7)),
            IF f.label THEN P(btn + fo + 48, Base + RvaReportString) ELSE EmptyMem,
            IF f.methods
            THEN Merge(P(KReport + 64, Base + 4176 * Half + 1984),
                       P(KReport + 72, Base + 4176 * Half + 2160))
            ELSE EmptyMem,
            P(PcObj, KAction),
            P(PcObj + fo + 16, CpdObj),
            P(CpdObj, KCPD)
        >>)

ImageA == [statics |-> TRUE,  field |-> TRUE,  where |-> "heap",
           label |-> FALSE, methods |-> FALSE, lazy |-> FALSE]
ImageB == [statics |-> FALSE, field |-> FALSE, where |-> "heap",
           label |-> TRUE,  methods |-> FALSE, lazy |-> TRUE]
ImageC == [statics |-> TRUE,  field |-> FALSE, where |-> "data",
           label |-> TRUE,  methods |-> TRUE,  lazy |-> FALSE]

\* A 32-bit game under WOW64, a 64-bit game, and a 64-bit game that pymem
\* cannot classify.
Narrow32 == [pid |-> 1, os_is_64 |-> "no",    host_64 |-> TRUE, wow64 |-> "yes"]
Wide64   == [pid |-> 1, os_is_64 |-> "yes",   host_64 |-> TRUE, wow64 |-> "no"]
Opaque64 == [pid |-> 1, os_is_64 |-> "raise", host_64 |-> TRUE, wow64 |-> "no"]

\* The games the service is attached to: a process and its image.
Games ==
    {<<Narrow32, ImageA>>, <<Narrow32, ImageB>>, <<Narrow32, ImageC>>,
     <<Wide64, ImageA>>, <<Opaque64, ImageB>>}

\* What the game may write: the lazy initialisation of ReportButton's
\* TypeInfo slot, and the report button's memory taken by a HudManager.
GameWrites(m, is_64) ==
    LET slot  == Base + RvaReport
        lazy  == IF CanReadPtr(m, is_64, slot) /\ read_ptr(m, is_64, slot) = 0
                 THEN {PutPtr(is_64, slot, KReport)} ELSE {}
        taken == {PutPtr(is_64, b, KHud) :
                     b \in {x \in {ButtonAt("heap"), ButtonAt("data")} :
                               /\ CanReadPtr(m, is_64, x)
                               /\ read_ptr(m, is_64, x) = KReport}}
    IN  lazy \cup taken

----------------------------------------------------------------------------
(* The service, attached to a running game: Spec.  The game keeps running; *)
(* the resolvers are called while the service is attached.                  *)

StartTime == REPORT_SCAN_MIN_INTERVAL

\* The state after AmongUsDataService(): __init__ has attached.
Init ==
    /\ \E g \in Games :
          /\ proc = g[1]
          /\ mem = Image(g[1].os_is_64 # "no", g[2])
          /\ memory = MemoryClient(g[1], Image(g[1].os_is_64 # "no", g[2]), Base)
    /\ svc = NewService
    /\ now = StartTime
    /\ call = NoCall
    /\ scan = NoScan

\* The layout a call worked with: pointer size and object header size.
Layout(mc) == <<PtrSize(mc.is_64), ObjFieldsOff(mc.is_64)>>

Attach ==
    /\ memory' = MemoryClient(proc, mem, Base)
    /\ svc' = [svc EXCEPT !.class_cache = EmptyCache]
    /\ call' = [op |-> "attach", args |-> <<>>, ret |-> 1]
    /\ UNCHANGED <<mem, now, scan, proc>>

detach(s) ==
    [s EXCEPT !.cached_playerdata_class = NoneVal,
              !.cached_playerdata_ptr_off = EmptyCache]

Detach ==
    /\ memory' = NoMemory
    /\ svc' = detach(svc)
    /\ call' = [op |-> "detach", args |-> <<>>, ret |-> 0]
    /\ UNCHANGED <<mem, now, scan, proc>>

Cleanup ==
    /\ memory' = NoMemory
    /\ svc' = detach([svc EXCEPT !.class_cache = EmptyCache,
                                 !.cached_playerdata_ptr_off = EmptyCache,
                                 !.cached_playerdata_class = NoneVal])
    /\ call' = [op |-> "cleanup", args |-> <<>>, ret |-> 0]
    /\ UNCHANGED <<mem, now, scan, proc>>

GameWrite ==
    /\ \E w \in GameWrites(mem, proc.os_is_64 # "no") : mem' = Merge(w, mem)
    /\ call' = NoCall
    /\ UNCHANGED <<memory, now, scan, proc, svc>>

\* The clock moves on by a whole scan interval.
Clock ==
    /\ now < StartTime + (MaxTime - 1) * REPORT_SCAN_MIN_INTERVAL
    /\ now' = now + REPORT_SCAN_MIN_INTERVAL
    /\ UNCHANGED <<mem, memory, call, scan, proc, svc>>

GetClassFromTypeinfo ==
    /\ \E rva \in {RvaReport} :
          LET r == get_class_from_typeinfo(svc, memory, mem, rva) IN
          /\ svc' = r.s
          /\ call' = [op |-> "_get_class_from_typeinfo", args |-> <<rva>>,
                      ret |-> r.v, raised |-> r.raised]
    /\ UNCHANGED <<mem, memory, now, scan, proc>>

ScannerGetClassFromTypeinfo ==
    /\ Attached(memory)
    /\ \E rva \in {0, RvaReport, RvaReportString} :
          call' = [op |-> "get_class_from_typeinfo", args |-> <<rva>>,
                   ret |-> scanner_get_class_from_typeinfo(memory, mem, rva),
                   raised |-> FALSE]
    /\ UNCHANGED <<mem, memory, now, scan, proc, svc>>

GetStringVa ==
    /\ Attached(memory)
    /\ LET r == get_string_va(svc, memory, "report") IN
          /\ svc' = r.s
          /\ call' = [op |-> "_get_string_va", args |-> <<"report">>, ret |-> r.v]
    /\ UNCHANGED <<mem, memory, now, scan, proc>>

GetHudmanagerInstancePtr ==
    /\ Attached(memory)
    /\ \E in_time \in BOOLEAN :
          LET r == get_hudmanager_instance_ptr(svc, memory, mem, in_time) IN
          /\ svc' = r.s
          /\ call' = [op |-> "_get_hudmanager_instance_ptr", args |-> <<>>,
                      ret |-> r.v, cached |-> r.cached, layout |-> Layout(memory)]
    /\ UNCHANGED <<mem, memory, now, scan, proc>>

GetReportButtonPtr ==
    /\ Attached(memory)
    /\ \E hud_in_time \in BOOLEAN, alive \in Cuts :
          LET r == get_report_button_ptr(svc, memory, mem, now, hud_in_time, alive) IN
          /\ svc' = r.s
          /\ call' = [op |-> "_get_report_button_ptr", args |-> <<>>,
                      ret |-> r.v, cached |-> r.cached, layout |-> Layout(memory)]
    /\ UNCHANGED <<mem, memory, now, scan, proc>>

IsReportButtonActive ==
    /\ Attached(memory)
    /\ \E hud_in_time \in BOOLEAN, alive \in Cuts :
          LET r == is_report_button_active(svc, memory, mem, now, hud_in_time, alive) IN
          /\ svc' = r.s
          /\ call' = [op |-> "is_report_button_active", args |-> <<>>,
                      ret |-> r.active, error |-> r.error, rb |-> r.rb,
                      cached |-> r.cached, off |-> r.off, layout |-> Layout(memory)]
    /\ UNCHANGED <<mem, memory, now, scan, proc>>

GetCachedPlayerdataPtr ==
    /\ \E pc_ptr \in {0, PcObj} :
          LET r == get_cached_playerdata_ptr(svc, memory, mem, pc_ptr) IN
          /\ svc' = r.s
          /\ call' = [op |-> "_get_cached_playerdata_ptr", args |-> <<pc_ptr>>,
                      ret |-> r.v, layout |-> Layout(memory)]
    /\ UNCHANGED <<mem, memory, now, scan, proc>>

\* The session and its class lookups.
Next ==
    \/ Attach \/ Detach \/ Cleanup
    \/ GameWrite
    \/ GetClassFromTypeinfo \/ ScannerGetClassFromTypeinfo \/ GetStringVa
    \/ GetHudmanagerInstancePtr \/ GetCachedPlayerdataPtr

Spec == Init /\ [][Next]_vars

\* The session and its report-button resolvers.
NextReport ==
    \/ Attach \/ Detach
    \/ GameWrite \/ Clock
    \/ GetHudmanagerInstancePtr \/ GetReportButtonPtr \/ IsReportButtonActive

SpecReport == Init /\ [][NextReport]_vars

----------------------------------------------------------------------------
(* Claims about the session. *)

CachesEmpty ==
    /\ svc.class_cache = EmptyCache
    /\ svc.hud_ptr_cache = 0
    /\ svc.report_ptr_cache = 0
    /\ svc.report_bool_off_cache = NoneVal
    /\ svc.stringlit_cache = EmptyCache
    /\ svc.cached_playerdata_class = NoneVal
    /\ svc.cached_playerdata_ptr_off = EmptyCache

\* C1: right after a successful attach(), and right after detach() or
\* cleanup() returns, every pointer and offset cache of the service is empty.
C1_CachesEmptyAtSessionBounds ==
    call.op \in {"attach", "detach", "cleanup"} => CachesEmpty

\* The class descriptors the TypeInfo slots hold now.
StoredClass(rva) ==
    IF CanReadPtr(mem, memory.is_64, Base + rva)
    THEN read_ptr(mem, memory.is_64, Base + rva) ELSE 0
ClassWordAt(p) ==
    IF CanReadPtr(mem, memory.is_64, p) THEN read_ptr(mem, memory.is_64, p) ELSE 0

\* C2: a resolver that answers from a cached object pointer has found the
\* expected class descriptor at that pointer: HudManager's for the cached
\* HUD, a button class for the cached report button.
C2_CachedPointerIsClassChecked ==
    /\ (call.op = "_get_hudmanager_instance_ptr" /\ call.cached)
          => (ClassWordAt(call.ret) # 0 /\ ClassWordAt(call.ret) = StoredClass(RvaHud))
    /\ (call.op = "_get_report_button_ptr" /\ call.cached)
          => (/\ ClassWordAt(call.ret) # 0
              /\ ClassWordAt(call.ret) \in {StoredClass(RvaReport), StoredClass(RvaAction)})
    /\ (call.op = "is_report_button_active" /\ call.cached)
          => (/\ ClassWordAt(call.rb) # 0
              /\ ClassWordAt(call.rb) \in {StoredClass(RvaReport), StoredClass(RvaAction)})

C10_ReturnsStoredPointer ==
    (/\ call.op \in {"get_class_from_typeinfo", "_get_class_from_typeinfo"}
     /\ Attached(memory)
     /\ call.args[1] # 0
     /\ ~call.raised
     /\ CanReadPtr(mem, memory.is_64, Base + call.args[1]))
        => call.ret = StoredClass(call.args[1])

\* C10, amended: the scanner returns the pointer stored at base + rva at the
\* time of the call; the service returns that pointer the first time it
\* looks an rva up after attach and keeps it, and from then on returns the
\* pointer it kept.
C10_ReturnsFirstReadPointer ==
    [][/\ (/\ call'.op = "get_class_from_typeinfo"
           /\ call'.args[1] # 0
           /\ CanReadPtr(mem', memory'.is_64, Base + call'.args[1]))
             => call'.ret = read_ptr(mem', memory'.is_64, Base + call'.args[1])
       /\ (call'.op = "_get_class_from_typeinfo" /\ ~call'.raised)
             => IF call'.args[1] \in DOMAIN svc.class_cache
                THEN call'.ret = svc.class_cache[call'.args[1]]
                ELSE /\ call'.ret = read_ptr(mem, memory.is_64, Base + call'.args[1])
                     /\ call'.args[1] \in DOMAIN svc'.class_cache
                     /\ svc'.class_cache[call'.args[1]] = call'.ret]_vars

\* The service answered from its cache after the game had initialised the
\* class: what it returned is not what the slot holds.
C10_Witness ==
    /\ call.op = "_get_class_from_typeinfo"
    /\ Attached(memory)
    /\ ~call.raised
    /\ call.ret = 0
    /\ StoredClass(call.args[1]) = KReport

----------------------------------------------------------------------------
(* Repeated static-fields lookups on a synthetic class descriptor:          *)
(* SpecStatics.                                                             *)

\* The candidates that hold a non-null pointer, by their place in the list.
StaticFieldsHits(mc, m, klass) ==
    {i \in 1..Len(STATIC_FIELDS_CANDIDATES) :
        /\ CanReadPtr(m, mc.is_64, klass + STATIC_FIELDS_CANDIDATES[i])
        /\ read_ptr(m, mc.is_64, klass + STATIC_FIELDS_CANDIDATES[i]) # 0}

\* The read_ptr calls Il2CppScanner.get_static_fields_ptr issues: one per
\* candidate up to the first that holds a non-null pointer.
scanner_static_fields_reads(mc, m, klass) ==
    IF klass = 0 THEN 0
    ELSE IF StaticFieldsHits(mc, m, klass) = {} THEN Len(STATIC_FIELDS_CANDIDATES)
    ELSE Min(StaticFieldsHits(mc, m, klass))

\* Those of _get_static_fields_ptr: the scanner's, and the service's own
\* loop over the same candidates when the scanner found nothing.
service_static_fields_reads(mc, m, klass) ==
    IF klass = 0 THEN 0
    ELSE IF StaticFieldsHits(mc, m, klass) = {} THEN 2 * Len(STATIC_FIELDS_CANDIDATES)
    ELSE Min(StaticFieldsHits(mc, m, klass))

StaticsKlass == 64 * 256
StaticsBlocks == {96 * 256, 112 * 256}

\* What a candidate slot holds: nothing committed, a null pointer, a block.
StaticsSlotKinds == {0 - 1, 0} \cup StaticsBlocks

StaticsMem(is_64, kinds) ==
    LET RECURSIVE Slots(_)
        Slots(i) ==
            IF i = 0 THEN EmptyMem
            ELSE Merge(IF kinds[i] = 0 - 1 THEN EmptyMem
                       ELSE PutPtr(is_64, StaticsKlass + STATIC_FIELDS_CANDIDATES[i], kinds[i]),
                       Slots(i - 1))
    IN  Slots(Len(STATIC_FIELDS_CANDIDATES))

InitStatics ==
    /\ \E is_64 \in BOOLEAN :
       \E kinds \in [1..Len(STATIC_FIELDS_CANDIDATES) -> StaticsSlotKinds] :
          /\ memory = [pid |-> 1, base |-> 0, is_64 |-> is_64]
          /\ mem = StaticsMem(is_64, kinds)
    /\ now = 1
    /\ call = NoCall
    /\ scan = NoScan
    /\ proc = HostProcess
    /\ svc = NewService

\* A lookup; "repeat" says that the call before it was the same lookup, with
\* no write to the memory in between.
ScannerGetStaticFieldsPtrCall ==
    /\ \E klass \in {0, StaticsKlass} :
          call' = [op |-> "get_static_fields_ptr", args |-> <<klass>>,
                   ret |-> get_static_fields_ptr(memory, mem, klass),
                   reads |-> scanner_static_fields_reads(memory, mem, klass),
                   repeat |-> (call.op = "get_static_fields_ptr" /\ call.args = <<klass>>),
                   before |-> call.ret]
    /\ UNCHANGED <<mem, memory, now, scan, proc, svc>>

GetStaticFieldsPtrCall ==
    /\ \E klass \in {0, StaticsKlass} :
          call' = [op |-> "_get_static_fields_ptr", args |-> <<klass>>,
                   ret |-> get_static_fields_ptr(memory, mem, klass),
                   reads |-> service_static_fields_reads(memory, mem, klass),
                   repeat |-> (call.op = "_get_static_fields_ptr" /\ call.args = <<klass>>),
                   before |-> call.ret]
    /\ UNCHANGED <<mem, memory, now, scan, proc, svc>>

\* The target rewrites one candidate slot of the descriptor.
StaticsWrite ==
    /\ \E i \in 1..Len(STATIC_FIELDS_CANDIDATES), p \in {0} \cup StaticsBlocks :
          mem' = Merge(PutPtr(memory.is_64, StaticsKlass + STATIC_FIELDS_CANDIDATES[i], p), mem)
    /\ call' = NoCall
    /\ UNCHANGED <<memory, now, scan, proc, svc>>

NextStatics ==
    ScannerGetStaticFieldsPtrCall \/ GetStaticFieldsPtrCall \/ StaticsWrite

SpecStatics == InitStatics /\ [][NextStatics]_vars

\* C11: the second of two consecutive static-fields lookups for the same
\* class descriptor, with the memory unchanged between them, issues no read
\* and returns what the first returned.
C11_RepeatedLookupReadsNothing ==
    (call.op \in {"get_static_fields_ptr", "_get_static_fields_ptr"}
     /\ call.repeat /\ call.args[1] # 0)
        => (call.reads = 0 /\ call.ret = call.before)

----------------------------------------------------------------------------
(* The scanner's primitives on a game whose memory has unreadable places:   *)
(* SpecScanner.  Every read_ptr of a primitive stands inside a              *)
(* "try ... except Exception", which the primitive leaves with its          *)
(* sentinel or by going on to the next position.                            *)

\* A faulty variant: a statement that lets the failure of a read through.
Try_NoHandler(read_fails) == read_fails
\* Whether a failure of a read inside "try ... except Exception" leaves the
\* statement: MemoryReadError is an Exception, so it never does.
Try(read_fails) == FALSE

StrideCount(is_64, bytes) == (bytes + PtrSize(is_64) - 1) \div PtrSize(is_64)

\* Some stride position of [from, to) cannot be read.
FailsWithin(m, is_64, from, to) ==
    to > from /\
    Cardinality({cur \in DOMAIN m : /\ cur >= from /\ cur < to
                                    /\ (cur - from) % PtrSize(is_64) = 0
                                    /\ CanReadPtr(m, is_64, cur)})
        < StrideCount(is_64, to - from)

\* No stride position of [from, to) can be read.
BlindWithin(m, is_64, from, to) ==
    \A cur \in DOMAIN m :
        (cur >= from /\ cur < to /\ (cur - from) % PtrSize(is_64) = 0)
            => ~CanReadPtr(m, is_64, cur)

\* What a primitive's call leaves: its result, whether an exception reached
\* the caller, whether a read it issued failed, whether none succeeded.
Outcome(ret, read_fails, blind) ==
    [ret |-> ret, raised |-> Try(read_fails), failed |-> read_fails, blind |-> blind]

\* The scan stops at the position it returns for; every position before it
\* was read.
ScannedTo(hits, end) == IF hits = {} THEN end ELSE Min(hits)

scanner_get_class_from_typeinfo_outcome(mc, m, rva) ==
    Outcome(scanner_get_class_from_typeinfo(mc, m, rva),
            rva # 0 /\ ~CanReadPtr(m, mc.is_64, mc.base + rva),
            rva # 0 /\ ~CanReadPtr(m, mc.is_64, mc.base + rva))

scanner_get_static_fields_ptr_outcome(mc, m, klass) ==
    LET tried == IF klass = 0 THEN {}
                 ELSE {i \in 1..Len(STATIC_FIELDS_CANDIDATES) :
                          i <= scanner_static_fields_reads(mc, m, klass)}
        Fails(i) == ~CanReadPtr(m, mc.is_64, klass + STATIC_FIELDS_CANDIDATES[i])
    IN  Outcome(get_static_fields_ptr(mc, m, klass),
                \E i \in tried : Fails(i),
                \A i \in tried : Fails(i))

scan_fields_for_class_outcome(mc, m, fields_base, span_bytes, target_klass) ==
    LET hits == {cur \in StridePositions(m, mc.is_64, fields_base, span_bytes) :
                    SlotHoldsInstance(m, mc.is_64, cur, target_klass)}
        to   == ScannedTo(hits, fields_base + span_bytes)
        Dangling(cur) == /\ CanReadPtr(m, mc.is_64, cur)
                         /\ read_ptr(m, mc.is_64, cur) # 0
                         /\ ~CanReadPtr(m, mc.is_64, read_ptr(m, mc.is_64, cur))
    IN  Outcome(scan_fields_for_class(m, mc.is_64, fields_base, span_bytes, target_klass),
                \/ FailsWithin(m, mc.is_64, fields_base, to)
                \/ \E cur \in StridePositions(m, mc.is_64, fields_base, span_bytes) :
                      cur < to /\ Dangling(cur),
                BlindWithin(m, mc.is_64, fields_base, fields_base + span_bytes))

\* scan_fields_for_ptr_value: the lowest stride position that holds
\* target_ptr.
scan_fields_for_ptr_value(m, is_64, fields_base, span_bytes, target_ptr) ==
    LET hits == {cur \in StridePositions(m, is_64, fields_base, span_bytes) :
                    /\ CanReadPtr(m, is_64, cur)
                    /\ read_ptr(m, is_64, cur) = target_ptr}
    IN  IF hits = {} THEN 0 ELSE Min(hits)

scan_fields_for_ptr_value_outcome(mc, m, fields_base, span_bytes, target_ptr) ==
    LET r == scan_fields_for_ptr_value(m, mc.is_64, fields_base, span_bytes, target_ptr)
    IN  Outcome(r,
                FailsWithin(m, mc.is_64, fields_base,
                            IF r = 0 THEN fields_base + span_bytes ELSE r),
                BlindWithin(m, mc.is_64, fields_base, fields_base + span_bytes))

\* scan_heap_for_class_instances with its default regions, limit 16 and no
\* deadline: the model's heaps hold fewer than 16 instances of a class.
scan_heap_for_class_instances_outcome(mc, m, target_klass) ==
    Outcome(HeapInstances(mc, m, target_klass),
            target_klass # 0 /\ FailsWithin(m, mc.is_64, DefaultRegionsStart(mc.base),
                                            DefaultRegionsEnd(mc.base)),
            target_klass = 0 \/ BlindWithin(m, mc.is_64, DefaultRegionsStart(mc.base),
                                            DefaultRegionsEnd(mc.base)))

object_fields_contains_ptr_outcome(mc, m, obj_ptr, target_ptr, span) ==
    LET base == obj_ptr + ObjFieldsOff(mc.is_64)
        end  == base + (IF span > 64 THEN span ELSE 64)
        hits == {cur \in StridePositions(m, mc.is_64, base, end - base) :
                    /\ CanReadPtr(m, mc.is_64, cur)
                    /\ read_ptr(m, mc.is_64, cur) = target_ptr}
    IN  Outcome(object_fields_contains_ptr(mc, m, obj_ptr, target_ptr, span),
                FailsWithin(m, mc.is_64, base, ScannedTo(hits, end)),
                BlindWithin(m, mc.is_64, base, end))

\* scan_object_field_ptrs: the non-null pointers among the fields.
scan_object_field_ptrs(mc, m, obj_ptr, span) ==
    {read_ptr(m, mc.is_64, cur) : cur \in FieldPtrPositions(mc, m, obj_ptr, span)}

scan_object_field_ptrs_outcome(mc, m, obj_ptr, span) ==
    LET base == obj_ptr + ObjFieldsOff(mc.is_64)
        end  == base + (IF span > 256 THEN span ELSE 256)
    IN  Outcome(scan_object_field_ptrs(mc, m, obj_ptr, span),
                FailsWithin(m, mc.is_64, base, end),
                BlindWithin(m, mc.is_64, base, end))

class_has_methods_outcome(mc, m, klass, methods) ==
    LET idle == klass = 0 \/ methods = {} IN
    Outcome(class_has_methods(mc, m, klass, methods),
            ~idle /\ ~class_has_methods(mc, m, klass, methods)
                  /\ FailsWithin(m, mc.is_64, klass, klass + Half),
            idle \/ BlindWithin(m, mc.is_64, klass, klass + Half))

find_object_by_method_signature_outcome(mc, m, methods) ==
    LET r == find_object_by_method_signature(mc, m, methods)
        InRegion(cur) == \E g \in RWRegions(mc.base) :
                            cur >= g.start /\ cur < g.start + g.size
    IN  Outcome(r,
                methods # {} /\ \E g \in RWRegions(mc.base) :
                    /\ (r = 0 \/ g.start < r)
                    /\ FailsWithin(m, mc.is_64, g.start,
                                   IF r # 0 /\ r < g.start + g.size THEN r
                                   ELSE g.start + g.size),
                methods = {} \/ \A cur \in DOMAIN m :
                    InRegion(cur) => ~CanReadPtr(m, mc.is_64, cur))

find_button_by_string_xref_outcome(mc, m, str_va, btn_klasses) ==
    LET r == find_button_by_string_xref(mc, m, str_va, btn_klasses) IN
    Outcome(r,
            str_va # 0 /\ r = 0 /\ FailsWithin(m, mc.is_64, DefaultRegionsStart(mc.base),
                                               DefaultRegionsEnd(mc.base)),
            str_va = 0 \/ BlindWithin(m, mc.is_64, DefaultRegionsStart(mc.base),
                                      DefaultRegionsEnd(mc.base)))

\* The record a primitive's call leaves.
ScannerCall(op, args, o) ==
    [op |-> op, args |-> args, ret |-> o.ret, raised |-> o.raised,
     failed |-> o.failed, blind |-> o.blind]

InitScanner == Init

\* The target releases memory: its heap, its image, or all of it.
Released == {[from |-> HeapStart, to |-> HeapStart + Half],
             [from |-> Base, to |-> HeapStart],
             [from |-> 0, to |-> HighAddr]}
ScannerDecommit ==
    /\ \E g \in Released :
          mem' = [a \in {x \in DOMAIN mem : x < g.from \/ x >= g.to} |-> mem[a]]
    /\ call' = NoCall
    /\ UNCHANGED <<memory, now, scan, proc, svc>>

ScanGetClassFromTypeinfo ==
    /\ \E rva \in {0, RvaReport, RvaReportString} :
          call' = ScannerCall("get_class_from_typeinfo", <<rva>>,
                              scanner_get_class_from_typeinfo_outcome(memory, mem, rva))
    /\ UNCHANGED <<mem, memory, now, scan, proc, svc>>

ScanGetStaticFieldsPtr ==
    /\ \E klass \in {0, KHud, KReport} :
          call' = ScannerCall("get_static_fields_ptr", <<klass>>,
                              scanner_get_static_fields_ptr_outcome(memory, mem, klass))
    /\ UNCHANGED <<mem, memory, now, scan, proc, svc>>

ScanFieldsForClass ==
    /\ \E fields_base \in {HudStatics, HudObj + ObjFieldsOff(memory.is_64)},
          target_klass \in {KHud, KReport} :
          call' = ScannerCall("scan_fields_for_class", <<fields_base, 1024, target_klass>>,
                              scan_fields_for_class_outcome(memory, mem, fields_base, 1024,
                                                            target_klass))
    /\ UNCHANGED <<mem, memory, now, scan, proc, svc>>

ScanFieldsForPtrValue ==
    /\ \E fields_base \in {HudStatics, HudObj + ObjFieldsOff(memory.is_64)},
          target_ptr \in {HudObj, ButtonAt("heap")} :
          call' = ScannerCall("scan_fields_for_ptr_value", <<fields_base, 1024, target_ptr>>,
                              scan_fields_for_ptr_value_outcome(memory, mem, fields_base, 1024,
                                                                target_ptr))
    /\ UNCHANGED <<mem, memory, now, scan, proc, svc>>

ScanHeapForClassInstances ==
    /\ \E target_klass \in {0, KHud, KReport, KAction} :
          call' = ScannerCall("scan_heap_for_class_instances", <<target_klass>>,
                              scan_heap_for_class_instances_outcome(memory, mem, target_klass))
    /\ UNCHANGED <<mem, memory, now, scan, proc, svc>>

ScanObjectFieldsContainsPtr ==
    /\ \E obj_ptr \in {HudObj, ButtonAt("heap")},
          target_ptr \in {ButtonAt("heap"), Base + RvaReportString} :
          call' = ScannerCall("object_fields_contains_ptr", <<obj_ptr, target_ptr, 512>>,
                              object_fields_contains_ptr_outcome(memory, mem, obj_ptr,
                                                                 target_ptr, 512))
    /\ UNCHANGED <<mem, memory, now, scan, proc, svc>>

ScanObjectFieldPtrs ==
    /\ \E obj_ptr \in {HudObj, PcObj} :
          call' = ScannerCall("scan_object_field_ptrs", <<obj_ptr, 2048>>,
                              scan_object_field_ptrs_outcome(memory, mem, obj_ptr, 2048))
    /\ UNCHANGED <<mem, memory, now, scan, proc, svc>>

ScanClassHasMethods ==
    /\ \E klass \in {0, KHud, KReport},
          methods \in {{}, {Base + x : x \in REPORT_METHOD_RVAS}} :
          call' = ScannerCall("class_has_methods", <<klass, methods>>,
                              class_has_methods_outcome(memory, mem, klass, methods))
    /\ UNCHANGED <<mem, memory, now, scan, proc, svc>>

ScanFindObjectByMethodSignature ==
    /\ \E methods \in {{}, {Base + x : x \in REPORT_METHOD_RVAS}} :
          call' = ScannerCall("find_object_by_method_signature", <<methods>>,
                              find_object_by_method_signature_outcome(memory, mem, methods))
    /\ UNCHANGED <<mem, memory, now, scan, proc, svc>>

ScanFindButtonByStringXref ==
    /\ \E str_va \in {0, Base + RvaReportString} :
          call' = ScannerCall("find_button_by_string_xref", <<str_va, {KReport, KAction}>>,
                              find_button_by_string_xref_outcome(memory, mem, str_va,
                                                                 {KReport, KAction}))
    /\ UNCHANGED <<mem, memory, now, scan, proc, svc>>

NextScanner ==
    \/ GameWrite \/ ScannerDecommit
    \/ ScanGetClassFromTypeinfo \/ ScanGetStaticFieldsPtr
    \/ ScanFieldsForClass \/ ScanFieldsForPtrValue
    \/ ScanHeapForClassInstances \/ ScanObjectFieldsContainsPtr
    \/ ScanObjectFieldPtrs \/ ScanClassHasMethods
    \/ ScanFindObjectByMethodSignature \/ ScanFindButtonByStringXref

SpecScanner == InitScanner /\ [][NextScanner]_vars

ScannerOps ==
    {"get_class_from_typeinfo", "get_static_fields_ptr", "scan_fields_for_class",
     "scan_fields_for_ptr_value", "scan_heap_for_class_instances",
     "object_fields_contains_ptr", "scan_object_field_ptrs", "class_has_methods",
     "find_object_by_method_signature", "find_button_by_string_xref"}

\* The not-found sentinel of a primitive: 0, False or the empty list.
IsSentinel(op, ret) ==
    CASE op \in {"scan_heap_for_class_instances", "scan_object_field_ptrs"} -> ret = {}
      [] op \in {"object_fields_contains_ptr", "class_has_methods"} -> ret = FALSE
      [] OTHER -> ret = 0

----------------------------------------------------------------------------
(* List<T> decoding on a synthetic GameData: SpecList.                      *)

LIST_CEILING_NPI == 32
LIST_CEILING == 64

ListItemsAddr(is_64, list_ptr) == list_ptr + ObjFieldsOff(is_64)
ListSizeAddr(is_64, list_ptr)  == list_ptr + ObjFieldsOff(is_64) + PtrSize(is_64)
ListElemAddr(is_64, items, i)  == items + ArrayVectorOff(is_64) + i * PtrSize(is_64)

\* "items = read_ptr(list_fields + 0x0); size = read_int(list_fields + ...)":
\* whether both reads succeed.
ListHeaderReadable(m, is_64, list_ptr) ==
    /\ CanReadPtr(m, is_64, ListItemsAddr(is_64, list_ptr))
    /\ CanRead32(m, ListSizeAddr(is_64, list_ptr))

\* A faulty variant: a count with no ceiling.
ListAccepted_NoCeiling(items, size, ceiling) ==
    ~(items = 0 \/ size <= 0)
\* "if not items or size <= 0 or size > ceiling: return"
ListAccepted(items, size, ceiling) ==
    ~(items = 0 \/ size <= 0 \/ size > ceiling)

\* The element loop with "try ... except Exception: continue" around each
\* element: the non-null elements, and the number of elements read.
RECURSIVE GuardedElements(_, _, _, _, _)
GuardedElements(m, is_64, items, size, i) ==
    IF i >= size THEN <<>>
    ELSE LET a == ListElemAddr(is_64, items, i)
             rest == GuardedElements(m, is_64, items, size, i + 1)
         IN  IF CanReadPtr(m, is_64, a) /\ read_ptr(m, is_64, a) # 0
             THEN <<read_ptr(m, is_64, a)>> \o rest
             ELSE rest

\* The element loop of _get_all_npi_objects, which has no handler of its
\* own: the elements up to the first that cannot be read.
RECURSIVE BareElements(_, _, _, _, _)
BareElements(m, is_64, items, size, i) ==
    IF i >= size THEN [out |-> <<>>, raised |-> FALSE, reads |-> 0]
    ELSE LET a == ListElemAddr(is_64, items, i) IN
         IF ~CanReadPtr(m, is_64, a) THEN [out |-> <<>>, raised |-> TRUE, reads |-> 1]
         ELSE LET rest == BareElements(m, is_64, items, size, i + 1) IN
              [out |-> IF read_ptr(m, is_64, a) # 0
                       THEN <<read_ptr(m, is_64, a)>> \o rest.out ELSE rest.out,
               raised |-> rest.raised,
               reads |-> rest.reads + 1]

\* What a decoding leaves: the list it returns, the element reads it issued,
\* whether it took the list for one.
Decoded3(out, reads, accepted) == [out |-> out, reads |-> reads, accepted |-> accepted]

read_list_items(mc, m, list_ptr) ==
    IF list_ptr = 0 \/ ~ListHeaderReadable(m, mc.is_64, list_ptr)
    THEN Decoded3(<<>>, 0, FALSE)
    ELSE LET items == read_ptr(m, mc.is_64, ListItemsAddr(mc.is_64, list_ptr))
             size  == read_int(m, ListSizeAddr(mc.is_64, list_ptr))
         IN  IF ~ListAccepted(items, size, LIST_CEILING) THEN Decoded3(<<>>, 0, FALSE)
             ELSE Decoded3(GuardedElements(m, mc.is_64, items, size, 0), size, TRUE)

\* TaskData(task_id, task_type_id, is_completed) of the task object, if its
\* fields can be read and are in range.
TaskOf(m, is_64, task_ptr) ==
    LET f == task_ptr + ObjFieldsOff(is_64) IN
    IF ~CanRead32(m, f) \/ ~CanRead8(m, f + 4) \/ ~CanRead8(m, f + 5) THEN <<>>
    ELSE IF read_u32(m, f).hi = 0 /\ read_u32(m, f).lo < 1024
         THEN <<[task_id |-> read_u32(m, f).lo, task_type_id |-> read_u8(m, f + 4),
                 is_completed |-> read_u8(m, f + 5) # 0]>>
         ELSE <<>>

RECURSIVE TasksOf(_, _, _)
TasksOf(m, is_64, ptrs) ==
    IF ptrs = <<>> THEN <<>>
    ELSE TaskOf(m, is_64, Head(ptrs)) \o TasksOf(m, is_64, Tail(ptrs))

parse_tasks_from_list(mc, m, list_ptr) ==
    LET d == read_list_items(mc, m, list_ptr) IN
    Decoded3(TasksOf(m, mc.is_64, d.out), d.reads, d.accepted)

\* Offsets.GAMEDATA_TYPEINFO_RVA and Offsets.LIST_NPI_TYPEINFO_RVA
GAMEDATA_TYPEINFO_RVA == 5 * 256
LIST_NPI_TYPEINFO_RVA == 6 * 256
IL2CPPCLASS_STATIC_FIELDS_OFF == 92

\* "self._get_class_from_typeinfo(rva) or self._get_class_from_dotnet(name)"
class_by_rva_or_name(s, mc, m, rva, name) ==
    Bind(get_class_from_typeinfo(s, mc, m, rva), LAMBDA c :
    IF c.raised \/ c.v # 0 THEN c ELSE get_class_from_dotnet(c.s, mc, m, name))

\* The candidates for GameData's static fields: the word at the fixed
\* offset, then what _get_static_fields_ptr finds, if it is another.
GameDataStaticsCandidates(mc, m, gd_klass) ==
    LET a   == gd_klass + IL2CPPCLASS_STATIC_FIELDS_OFF
        sf  == IF CanReadPtr(m, mc.is_64, a) THEN read_ptr(m, mc.is_64, a) ELSE 0
        sf2 == get_static_fields_ptr(mc, m, gd_klass)
    IN  (IF sf # 0 THEN <<sf>> ELSE <<>>) \o
        (IF sf2 # 0 /\ sf2 # sf THEN <<sf2>> ELSE <<>>)

\* "for sf in candidates": the first instance pointer that can be read and
\* is not null.
RECURSIVE FirstInstance(_, _, _)
FirstInstance(mc, m, cands) ==
    IF cands = <<>> THEN 0
    ELSE IF CanReadPtr(m, mc.is_64, Head(cands)) /\ read_ptr(m, mc.is_64, Head(cands)) # 0
         THEN read_ptr(m, mc.is_64, Head(cands))
         ELSE FirstInstance(mc, m, Tail(cands))

\* What _get_all_npi_objects leaves: the service, the list it returns, the
\* element reads it issued, whether it took the list for one.
Npi(s, out, reads, accepted) == [s |-> s, out |-> out, reads |-> reads, accepted |-> accepted]

\* _get_all_npi_objects: every exception ends at the outer handler, which
\* returns the empty list.
get_all_npi_objects(s, mc, m) ==
    IF ~Attached(mc) THEN Npi(s, <<>>, 0, FALSE) ELSE
    Bind(class_by_rva_or_name(s, mc, m, GAMEDATA_TYPEINFO_RVA, "gamedata"), LAMBDA g :
    IF g.raised \/ g.v = 0 THEN Npi(g.s, <<>>, 0, FALSE) ELSE
    Bind(FirstInstance(mc, m, GameDataStaticsCandidates(mc, m, g.v)), LAMBDA gd :
    IF gd = 0 THEN Npi(g.s, <<>>, 0, FALSE) ELSE
    Bind(class_by_rva_or_name(g.s, mc, m, LIST_NPI_TYPEINFO_RVA,
                              "list_1_networkedplayerinfo_"), LAMBDA k :
    IF k.raised THEN Npi(k.s, <<>>, 0, FALSE) ELSE
    Bind(scan_fields_for_class(m, mc.is_64, gd + ObjFieldsOff(mc.is_64), 1024, k.v),
         LAMBDA all_players_list :
    IF all_players_list = 0 \/ ~ListHeaderReadable(m, mc.is_64, all_players_list)
    THEN Npi(k.s, <<>>, 0, FALSE) ELSE
    LET items == read_ptr(m, mc.is_64, ListItemsAddr(mc.is_64, all_players_list))
        size  == read_int(m, ListSizeAddr(mc.is_64, all_players_list))
    IN  IF ~ListAccepted(items, size, LIST_CEILING_NPI) THEN Npi(k.s, <<>>, 0, FALSE)
        ELSE Bind(BareElements(m, mc.is_64, items, size, 0), LAMBDA e :
             Npi(k.s, IF e.raised THEN <<>> ELSE e.out, e.reads, TRUE))))))

\* The synthetic game: GameData's class, static fields and instance, its
\* list of players, the list's array and three player objects.
KGameData == Base + 2 * Half
KListNpi  == Base + 3 * Half
GdStatics == HeapStart + 32 * 256
GdObj     == HeapStart + 33 * 256
ListObj   == HeapStart + 34 * 256
ItemsArr  == HeapStart + 36 * 256
ElemObj(i) == HeapStart + (40 + i) * 256
MaxElems == 3

\* The counts a list may hold: -1 and -2147483647 among them.
ListSizeCells ==
    {W(n) : n \in {0, 1, 2, 3, LIST_CEILING_NPI, LIST_CEILING_NPI + 1,
                   LIST_CEILING, LIST_CEILING + 1}}
        \cup {[hi |-> 65535, lo |-> 65535], [hi |-> 32768, lo |-> 1]}

\* items: 0 no cell, 1 null, 2 the array.  size: <<>> no cell, or <<cell>>.
\* elems[i]: 0 no cell, 1 null, 2 a player object.
ListMem(is_64, items, size, elems) ==
    LET fo == ObjFieldsOff(is_64)
        P(a, p) == PutPtr(is_64, a, p)
        RECURSIVE Elems(_)
        Elems(i) ==
            IF i = 0 THEN EmptyMem
            ELSE MergeAll(<<
                    IF elems[i] = 0 THEN EmptyMem
                    ELSE P(ListElemAddr(is_64, ItemsArr, i - 1),
                           IF elems[i] = 1 THEN 0 ELSE ElemObj(i)),
                    Cell(ElemObj(i) + fo, W(i)),
                    Cell(ElemObj(i) + fo + 4, W(i + 256 * (i % 2))),
                    Elems(i - 1) >>)
    IN  MergeAll(<<
            P(Base + GAMEDATA_TYPEINFO_RVA, KGameData),
            P(Base + LIST_NPI_TYPEINFO_RVA, KListNpi),
            P(KGameData + IL2CPPCLASS_STATIC_FIELDS_OFF, GdStatics),
            P(GdStatics, GdObj),
            P(GdObj, KGameData),
            P(GdObj + fo + 16, ListObj),
            P(ListObj, KListNpi),
            IF items = 0 THEN EmptyMem
            ELSE P(ListItemsAddr(is_64, ListObj), IF items = 1 THEN 0 ELSE ItemsArr),
            IF size = <<>> THEN EmptyMem ELSE Cell(ListSizeAddr(is_64, ListObj), size[1]),
            Elems(MaxElems) >>)

InitList ==
    /\ \E is_64 \in BOOLEAN :
       \E items \in {0, 1, 2} :
       \E size \in {<<>>} \cup {<<c>> : c \in ListSizeCells} :
       \E elems \in [1..MaxElems -> {0, 1, 2}] :
          /\ memory = [pid |-> 1, base |-> Base, is_64 |-> is_64]
          /\ mem = ListMem(is_64, items, size, elems)
    /\ now = 1
    /\ call = NoCall
    /\ scan = NoScan
    /\ proc = HostProcess
    /\ svc = NewService

ListCall(op, args, d) ==
    [op |-> op, args |-> args, ret |-> d.out, reads |-> d.reads, accepted |-> d.accepted]

ReadListItemsCall ==
    /\ \E list_ptr \in {0, ListObj} :
          call' = ListCall("_read_list_items", <<list_ptr>>,
                           read_list_items(memory, mem, list_ptr))
    /\ UNCHANGED <<mem, memory, now, scan, proc, svc>>

ParseTasksFromListCall ==
    /\ \E list_ptr \in {0, ListObj} :
          call' = ListCall("_parse_tasks_from_list", <<list_ptr>>,
                           parse_tasks_from_list(memory, mem, list_ptr))
    /\ UNCHANGED <<mem, memory, now, scan, proc, svc>>

GetAllNpiObjectsCall ==
    /\ LET r == get_all_npi_objects(svc, memory, mem) IN
          /\ svc' = r.s
          /\ call' = ListCall("_get_all_npi_objects", <<>>, r)
    /\ UNCHANGED <<mem, memory, now, scan, proc>>

NextList == ReadListItemsCall \/ ParseTasksFromListCall \/ GetAllNpiObjectsCall

SpecList == InitList /\ [][NextList]_vars

\* The header the list object holds now.
StoredItems == read_ptr(mem, memory.is_64, ListItemsAddr(memory.is_64, ListObj))
StoredSize  == read_int(mem, ListSizeAddr(memory.is_64, ListObj))
CeilingOf(op) == IF op = "_get_all_npi_objects" THEN LIST_CEILING_NPI ELSE LIST_CEILING
ListOps == {"_get_all_npi_objects", "_parse_tasks_from_list", "_read_list_items"}
OnTheList == call.op \in ListOps /\ (call.args = <<>> \/ call.args = <<ListObj>>)

\* The list is one the claim has accepted: its header can be read, its
\* items pointer is not null, and 0 < count <= ceiling.
ListIsSound ==
    /\ ListHeaderReadable(mem, memory.is_64, ListObj)
    /\ StoredItems # 0
    /\ StoredSize > 0
    /\ StoredSize <= CeilingOf(call.op)

\* C13: in _get_all_npi_objects an element that cannot be read only drops
\* out: the call returns every element of the list that can be read and is
\* not null.
C13_FailedElementOnlySkipped ==
    (call.op = "_get_all_npi_objects" /\ ListIsSound)
        => call.ret = GuardedElements(mem, memory.is_64, StoredItems, StoredSize, 0)

\* C17: a list whose items pointer is null or whose signed count is not in
\* 1..ceiling yields the empty result with no element read; any other list
\* yields at most count elements, none of them null.
C17_ListAcceptance ==
    OnTheList =>
        IF ListIsSound
        THEN /\ Len(call.ret) <= StoredSize
             /\ call.reads <= StoredSize
             /\ call.op # "_parse_tasks_from_list"
                   => \A i \in 1..Len(call.ret) : call.ret[i] # 0
        ELSE call.ret = <<>> /\ call.reads = 0 /\ ~call.accepted

\* A list of the greatest accepted count was read to its end and yielded
\* its players; and a list of a negative count was turned down.
C17_Witness ==
    /\ call.op = "_read_list_items"
    /\ call.args = <<ListObj>>
    /\ ListIsSound
    /\ StoredSize = LIST_CEILING
    /\ call.reads = LIST_CEILING
    /\ Len(call.ret) >= 3


\* ---------------------------------------------------------------------
\* Session-state classification (readers/session.py, SessionReader).
\* The signal vector is a SessionSignals record; _classify_state is a
\* pure function of it.
\* ---------------------------------------------------------------------

\* Counter(sl for sl in signals.client_slots if sl >= 0), then the number
\* of its keys.
unique_slots(s) ==
    Cardinality({s.client_slots[i] : i \in {j \in DOMAIN s.client_slots : s.client_slots[j] >= 0}})

\* Counter(pid for pid in signals.player_ids if 0 <= pid < 255): its keys.
valid_ids(s) ==
    {s.player_ids[i] : i \in {j \in DOMAIN s.player_ids :
                                 s.player_ids[j] >= 0 /\ s.player_ids[j] < 255}}

\* any(count > 1 for count in id_counts.values())
repeated_id(s) ==
    \E i \in DOMAIN s.player_ids : \E j \in DOMAIN s.player_ids :
        i # j /\ s.player_ids[i] = s.player_ids[j] /\ s.player_ids[i] \in valid_ids(s)

\* A faulty variant: the local player pointer is never looked at.
LocalPlayerAbsent_Never(s) == FALSE

\* signals.local_player_ptr == 0
LocalPlayerAbsent(s) == s.local_player_ptr = 0

\* joined_room once every line that can set it has run.
joined_room(s) ==
    \/ s.any_pc
    \/ s.npi_count > 1
    \/ s.any_clientdata
    \/ s.gamedata_first_int # NoneVal
    \/ unique_slots(s) >= 2

\* A faulty variant: the HUD alone makes the session SHIP.
ShipOrMatching_HudAlone(s) ==
    IF s.gamedata_state_int # NoneVal /\ s.gamedata_state_int # 0 /\ s.any_pc_pos THEN "SHIP"
    ELSE IF s.hud_ptr # 0 THEN "SHIP"
    ELSE IF s.ship_status_hits # <<>> /\ s.any_pc_pos THEN "SHIP"
    ELSE "MATCHING"

\* The three SHIP tests at the end of _classify_state.
ShipOrMatching(s) ==
    IF s.gamedata_state_int # NoneVal /\ s.gamedata_state_int # 0 /\ s.any_pc_pos THEN "SHIP"
    ELSE IF s.hud_ptr # 0 /\ s.any_pc_pos THEN "SHIP"
    ELSE IF s.ship_status_hits # <<>> /\ s.any_pc_pos THEN "SHIP"
    ELSE "MATCHING"

\* SessionReader._classify_state, return by return.
classify_state(s) ==
    IF s.lobby_ui_present THEN "LOBBY"
    ELSE IF LocalPlayerAbsent(s) THEN "LOBBY"
    ELSE IF s.gamedata_first_int # NoneVal /\ s.gamedata_first_int = 0 THEN "LOBBY"
    ELSE IF unique_slots(s) < 2 /\ s.gamedata_first_int = NoneVal THEN "LOBBY"
    ELSE IF /\ valid_ids(s) # {}
            /\ Cardinality(valid_ids(s)) = 1
            /\ repeated_id(s)
            /\ ~s.any_clientdata
            /\ unique_slots(s) <= 1
            /\ ~(s.gamedata_first_int # NoneVal /\ s.gamedata_first_int # 0)
         THEN "LOBBY"
    ELSE IF valid_ids(s) = {} /\ s.gamedata_first_int = NoneVal THEN "LOBBY"
    ELSE IF ~joined_room(s) THEN "LOBBY"
    ELSE ShipOrMatching(s)

\* The signal vectors tried.
SignalIdLists   == {<<>>, <<0>>, <<0, 0>>, <<0, 1>>, <<255>>}
SignalSlotLists == {<<>>, <<0>>, <<0, 0>>, <<0, 1>>, <<-1, 0>>}
SignalInts      == {NoneVal, 0, 1}

SignalVectors ==
    [lobby_ui_present : BOOLEAN,
     local_player_ptr : {0, PcObj},
     npi_count : {0, 2},
     any_pc : BOOLEAN,
     any_pc_pos : BOOLEAN,
     any_clientdata : BOOLEAN,
     hud_ptr : {0, HudObj},
     ship_status_hits : {<<>>, <<"skeldshipstatus">>},
     player_ids : SignalIdLists,
     client_slots : SignalSlotLists,
     gamedata_first_int : SignalInts,
     gamedata_state_int : SignalInts]

InitSignals ==
    /\ \E s \in SignalVectors : scan = [pc |-> "signals", signals |-> s]
    /\ mem = EmptyMem
    /\ memory = NoMemory
    /\ now = StartTime
    /\ call = NoCall
    /\ proc = [pid |-> 1, os_is_64 |-> "no", host_64 |-> TRUE, wow64 |-> "yes"]
    /\ svc = NewService

\* state = self._classify_state(signals)
ClassifyStateCall ==
    /\ scan.pc = "signals"
    /\ call' = [op |-> "_classify_state", args |-> <<scan.signals>>,
                ret |-> classify_state(scan.signals)]
    /\ UNCHANGED <<mem, memory, now, scan, proc, svc>>

NextSignals == ClassifyStateCall

SpecSignals == InitSignals /\ [][NextSignals]_vars

\* C14: whatever the other signals say, a vector with the lobby UI present
\* is classified LOBBY, and so is a vector with no local player pointer.
C14_LobbyShortCircuits ==
    call.op = "_classify_state" =>
        /\ call.args[1].lobby_ui_present => call.ret = "LOBBY"
        /\ call.args[1].local_player_ptr = 0 => call.ret = "LOBBY"

\* A vector without the lobby UI and without a local player, whose every
\* other signal speaks for a running match, was classified LOBBY.
C14_Witness ==
    /\ call.op = "_classify_state"
    /\ ~call.args[1].lobby_ui_present
    /\ call.args[1].local_player_ptr = 0
    /\ ShipOrMatching(call.args[1]) = "SHIP"
    /\ joined_room(call.args[1])
    /\ call.args[1].gamedata_first_int = 1
    /\ call.ret = "LOBBY"



\* ---------------------------------------------------------------------
\* Boolean derivations with diagnostics: get_player_death_status
\* (tools/check_player_death.py) and get_local_impostor_flag.
\* ---------------------------------------------------------------------

ROLE_TYPE_IMPOSTOR_VALUES == {1, 5, 7}
ROLE_TYPE_DEAD_VALUES == {4, 6, 7}
\* set(ROLE_TYPE_NAMES.keys()) | set(range(0, 0x20)); every named role is
\* below 0x20.
ROLE_TYPE_KNOWN_VALUES == 0..31
\* candidate_offsets of the last stage: 0x34, 0x4C, 0xE8, 0xF0
DEATH_BOOL_OFFSETS == <<52, 76, 232, 240>>
\* the offsets _get_player_control_from_npi tries
NPI_PC_OFFSETS == <<72, 76, 80, 84, 88, 92>>
PC_STATIC_LOCALPLAYER_OFF == 0

\* Offsets.PC_TYPEINFO_RVA: the TypeInfo slot of PlayerControl.
PC_TYPEINFO_RVA == 7 * 256

\* _read_u16: two read_u8 calls, low byte first.
CanReadU16(m, a) == CanRead8(m, a) /\ CanRead8(m, a + 1)
read_u16(m, a) == read_u8(m, a) + 256 * read_u8(m, a + 1)

\* validate_candidate(offset): every player's value is a known role, there
\* are at least two players, and not all hold the same value.
validate_candidate(m, npis, fields_off, offset) ==
    /\ \A n \in npis : /\ CanReadU16(m, n + fields_off + offset)
                       /\ read_u16(m, n + fields_off + offset) \in ROLE_TYPE_KNOWN_VALUES
    /\ Cardinality(npis) >= 2
    /\ Cardinality({read_u16(m, n + fields_off + offset) : n \in npis}) > 1

\* _detect_role_offset with the module's _ROLE_OFFSET_CACHE: v is the offset
\* or None.
detect_role_offset(mc, m, cache, npis, fields_off) ==
    LET key       == mc.is_64
        preferred == IF key THEN 48 ELSE 36
        valid     == {off \in {36 + 2 * k : k \in 0..45} :
                         validate_candidate(m, npis, fields_off, off)}
        found     == IF preferred \in valid THEN preferred
                     ELSE IF valid # {} THEN Min(valid) ELSE NoneVal
    IN  IF npis = {} THEN [v |-> NoneVal, cache |-> cache]
        ELSE IF key \in DOMAIN cache /\ cache[key] # NoneVal
             THEN [v |-> cache[key], cache |-> cache]
        ELSE [v |-> found, cache |-> Put(cache, key, found)]

\* _get_player_control_from_npi
RECURSIVE FirstOfClass(_, _, _, _, _)
FirstOfClass(mc, m, base, offs, klass) ==
    IF offs = <<>> THEN 0
    ELSE IF /\ CanReadPtr(m, mc.is_64, base + Head(offs))
            /\ read_ptr(m, mc.is_64, base + Head(offs)) # 0
            /\ CanReadPtr(m, mc.is_64, read_ptr(m, mc.is_64, base + Head(offs)))
            /\ read_ptr(m, mc.is_64, read_ptr(m, mc.is_64, base + Head(offs))) = klass
         THEN read_ptr(m, mc.is_64, base + Head(offs))
         ELSE FirstOfClass(mc, m, base, Tail(offs), klass)

get_player_control_from_npi(s, mc, m, npi_ptr) ==
    IF npi_ptr = 0 THEN Ret(s, 0) ELSE
    Bind(class_by_rva_or_name(s, mc, m, PC_TYPEINFO_RVA, "playercontrol"), LAMBDA k :
    IF k.raised THEN Ret(k.s, 0)
    ELSE Ret(k.s, FirstOfClass(mc, m, npi_ptr + ObjFieldsOff(mc.is_64), NPI_PC_OFFSETS, k.v)))

\* _get_local_player_ptr
get_local_player_ptr(s, mc, m) ==
    Bind(class_by_rva_or_name(s, mc, m, PC_TYPEINFO_RVA, "playercontrol"), LAMBDA k :
    IF k.raised \/ k.v = 0 THEN Ret(k.s, 0)
    ELSE Ret(k.s, FirstInstance(mc, m,
                 [i \in DOMAIN GameDataStaticsCandidates(mc, m, k.v) |->
                     GameDataStaticsCandidates(mc, m, k.v)[i] + PC_STATIC_LOCALPLAYER_OFF])))

\* The players the service has cached (get_player_by_color, get_all_players)
\* and the player-info object _get_npi_by_color_id finds for a colour: the
\* colours 0 and 1 are in the match, colour 2 is a cached player whose
\* player-info object is gone, any other colour is unknown.
NpiOf(c)    == HeapStart + (32 + 8 * c) * 256
PlayerOf(c) == NpiOf(c) + 2 * 256
CpdOf(c)    == NpiOf(c) + 5 * 256
CachedColors == {0, 1, 2}
npi_by_color_id(c) == IF c \in {0, 1} THEN NpiOf(c) ELSE 0

\* What a derivation hands back: the answer (1, 0 or None), the "error" and
\* "method" entries of its diagnostics ("" when absent), the intermediate
\* values, and what it left behind.
Derived(ret, error, method, d) ==
    [ret |-> ret, error |-> error, method |-> method, s |-> d.s, mc |-> d.mc,
     cache |-> d.cache, cached_ptr |-> d.cached_ptr, role_offset |-> d.role_offset]

\* "if not ds.is_attached() and not ds.attach()": attach fails when there is
\* no process.
AttachedOrAttach(s, mc, p, m) ==
    IF Attached(mc) THEN [ok |-> TRUE, s |-> s, mc |-> mc]
    ELSE IF p.pid = 0 THEN [ok |-> FALSE, s |-> s, mc |-> NoMemory]
    ELSE [ok |-> TRUE, s |-> [s EXCEPT !.class_cache = EmptyCache],
          mc |-> MemoryClient(p, m, Base)]

\* The first candidate offset whose byte is 0 or 1; 0 when there is none.
RECURSIVE FirstBool(_, _, _)
FirstBool(m, base, offs) ==
    IF offs = <<>> THEN 0
    ELSE IF CanRead8(m, base + Head(offs)) /\ read_u8(m, base + Head(offs)) \in {0, 1}
         THEN Head(offs)
         ELSE FirstBool(m, base, Tail(offs))

\* get_player_death_status(ds, color_id)
get_player_death_status(s0, mc0, p, m, cache, color_id) ==
    Bind(AttachedOrAttach(s0, mc0, p, m), LAMBDA a :
    LET mc  == a.mc
        d0  == [s |-> a.s, mc |-> a.mc, cache |-> cache, cached_ptr |-> 0,
                role_offset |-> NoneVal]
        npi == npi_by_color_id(color_id)
    IN
    IF ~a.ok THEN Derived(NoneVal, "not attached", "", d0)
    ELSE IF color_id \notin CachedColors THEN Derived(NoneVal, "player not found", "", d0)
    ELSE IF npi = 0 THEN Derived(NoneVal, "NPI not found", "", d0)
    ELSE
    Bind(get_player_control_from_npi(a.s, mc, m, npi), LAMBDA pc :
    Bind(IF pc.v # 0 THEN get_cached_playerdata_ptr(pc.s, mc, m, pc.v) ELSE Ret(pc.s, 0),
         LAMBDA cp :
    LET fields_off == ObjFieldsOff(mc.is_64)
        is_dead_at == cp.v + fields_off + PtrSize(mc.is_64) * 2 + 2
        d1   == [d0 EXCEPT !.s = cp.s, !.cached_ptr = cp.v]
        npis == {npi_by_color_id(c) : c \in {x \in CachedColors : npi_by_color_id(x) # 0}}
                    \cup {npi}
    IN
    IF cp.v # 0 /\ CanRead8(m, is_dead_at) /\ read_u8(m, is_dead_at) \in {0, 1}
    THEN Derived(read_u8(m, is_dead_at), "", "CachedPlayerData", d1)
    ELSE
    Bind(detect_role_offset(mc, m, cache, npis, fields_off), LAMBDA ro :
    LET d2 == [d1 EXCEPT !.cache = ro.cache, !.role_offset = ro.v]
        role_at == npi + fields_off + ro.v
        hit == FirstBool(m, npi + fields_off, DEATH_BOOL_OFFSETS)
    IN
    IF ro.v # NoneVal /\ CanReadU16(m, role_at)
    THEN Derived(IF read_u16(m, role_at) \in ROLE_TYPE_DEAD_VALUES THEN 1 ELSE 0,
                 "", "RoleType_inference", d2)
    ELSE IF hit # 0
    THEN Derived(read_u8(m, npi + fields_off + hit), "", "NPI_bool_fallback", d2)
    ELSE Derived(NoneVal, "could not determine death status", "", d2)))))

\* get_local_impostor_flag
get_local_impostor_flag(s0, mc0, p, m, cache) ==
    Bind(AttachedOrAttach(s0, mc0, p, m), LAMBDA a :
    LET mc == a.mc
        d0 == [s |-> a.s, mc |-> a.mc, cache |-> cache, cached_ptr |-> 0,
               role_offset |-> NoneVal]
    IN
    IF ~a.ok THEN Derived(NoneVal, "not attached", "", d0)
    ELSE
    Bind(get_local_player_ptr(a.s, mc, m), LAMBDA pc :
    IF pc.v = 0 THEN Derived(NoneVal, "local player not found", "", [d0 EXCEPT !.s = pc.s])
    ELSE
    Bind(get_cached_playerdata_ptr(pc.s, mc, m, pc.v), LAMBDA cp :
    LET d1 == [d0 EXCEPT !.s = cp.s, !.cached_ptr = cp.v]
        at == cp.v + ObjFieldsOff(mc.is_64) + PtrSize(mc.is_64) * 2 + 1
    IN
    IF cp.v = 0 THEN Derived(NoneVal, "CachedPlayerData not found", "", d1)
    ELSE IF ~CanRead8(m, at) THEN Derived(NoneVal, "MemoryReadError", "", d1)
    ELSE IF read_u8(m, at) \notin {0, 1} THEN Derived(NoneVal, "unexpected raw value", "", d1)
    ELSE Derived(read_u8(m, at), "", "", d1))))


\* The match the derivations are tried on.  Colour 0 is the local player.
\*   w.cpd     "nopc": the player-info object has no PlayerControl;
\*             "nocpd": the PlayerControl has no CachedPlayerData;
\*             "unreadable": the block's flag bytes cannot be read;
\*             "alive", "dead", "junk": the flag bytes hold 0, 1, 2
\*   w.role_at where the role type lives: nowhere, at the preferred offset,
\*             or at offset 0x28
\*   w.role    colour 0's role type (colour 1 is an Impostor)
\*   w.flag34, w.flag4C  the bytes at two of the fallback offsets
KPC       == Base + 15 * Half
PcStatics == Base + 17 * Half
FlagByte(k) == CASE k = "alive" -> 0 [] k = "dead" -> 1 [] OTHER -> 2
RoleOffsetOf(is_64, k) == IF k = "preferred" THEN (IF is_64 THEN 48 ELSE 36) ELSE 40

DeathWorlds ==
    [cpd : {"nopc", "nocpd", "unreadable", "alive", "dead", "junk"},
     role_at : {"none", "preferred", "later"},
     role : {0, 1, 6, 64},
     flag34 : {"none", "alive", "dead", "junk"},
     flag4C : {"none", "dead"}]

DeathMem(is_64, w) ==
    LET fo == ObjFieldsOff(is_64)
        P(a, p) == PutPtr(is_64, a, p)
        has_pc  == w.cpd # "nopc"
        has_cpd == w.cpd \notin {"nopc", "nocpd"}
    IN  MergeAll(<<
            P(Base + PC_TYPEINFO_RVA, KPC),
            P(KPC + IL2CPPCLASS_STATIC_FIELDS_OFF, PcStatics),
            P(PcStatics + PC_STATIC_LOCALPLAYER_OFF, IF has_pc THEN PlayerOf(0) ELSE 0),
            IF has_pc THEN Merge(P(NpiOf(0) + fo + 80, PlayerOf(0)), P(PlayerOf(0), KPC))
            ELSE EmptyMem,
            IF has_cpd THEN Merge(P(PlayerOf(0) + fo + 16, CpdOf(0)), P(CpdOf(0), KCPD))
            ELSE EmptyMem,
            IF w.cpd \in {"alive", "dead", "junk"}
            THEN Cell(CpdOf(0) + fo + 2 * PtrSize(is_64),
                      [hi |-> FlagByte(w.cpd), lo |-> 256 * FlagByte(w.cpd) + 1])
            ELSE EmptyMem,
            IF w.role_at # "none"
            THEN Merge(Cell(NpiOf(0) + fo + RoleOffsetOf(is_64, w.role_at), W(w.role)),
                       Cell(NpiOf(1) + fo + RoleOffsetOf(is_64, w.role_at), W(1)))
            ELSE EmptyMem,
            IF w.flag34 # "none" THEN Cell(NpiOf(0) + fo + 52, W(FlagByte(w.flag34)))
            ELSE EmptyMem,
            IF w.flag4C # "none" THEN Cell(NpiOf(0) + fo + 76, W(FlagByte(w.flag4C)))
            ELSE EmptyMem,
            Image(is_64, ImageA)>>)

ToolIdle == [pc |-> "tool", role_offset_cache |-> EmptyCache]

InitDeath ==
    /\ \E g \in {Narrow32, Wide64} : \E w \in DeathWorlds :
          /\ proc = g
          /\ mem = DeathMem(g.os_is_64 # "no", w)
          /\ memory = MemoryClient(g, DeathMem(g.os_is_64 # "no", w), Base)
    /\ svc = NewService
    /\ now = StartTime
    /\ call = NoCall
    /\ scan = ToolIdle

DerivedCall(op, args, r) ==
    [op |-> op, args |-> args, ret |-> r.ret, error |-> r.error, method |-> r.method,
     cached_ptr |-> r.cached_ptr, role_offset |-> r.role_offset]

GetPlayerDeathStatusCall ==
    /\ scan.pc = "tool"
    /\ \E color_id \in {0, 1, 2, 3} :
          LET r == get_player_death_status(svc, memory, proc, mem,
                                           scan.role_offset_cache, color_id) IN
          /\ svc' = r.s
          /\ memory' = r.mc
          /\ scan' = [scan EXCEPT !.role_offset_cache = r.cache]
          /\ call' = DerivedCall("get_player_death_status", <<color_id>>, r)
    /\ UNCHANGED <<mem, now, proc>>

GetLocalImpostorFlagCall ==
    /\ scan.pc = "tool"
    /\ LET r == get_local_impostor_flag(svc, memory, proc, mem, scan.role_offset_cache) IN
          /\ svc' = r.s
          /\ memory' = r.mc
          /\ call' = DerivedCall("get_local_impostor_flag", <<>>, r)
    /\ UNCHANGED <<mem, now, scan, proc>>

\* Colour 0 is killed: its role type becomes CrewmateGhost.
PlayerDies ==
    /\ \E is_64 \in BOOLEAN : \E k \in {"preferred", "later"} :
          LET a == NpiOf(0) + ObjFieldsOff(is_64) + RoleOffsetOf(is_64, k) IN
          /\ proc.pid # 0
          /\ is_64 = (proc.os_is_64 # "no")
          /\ a \in DOMAIN mem
          /\ mem[a] # W(6)
          /\ mem' = Merge(Cell(a, W(6)), mem)
    /\ call' = NoCall
    /\ UNCHANGED <<memory, now, scan, proc, svc>>

\* The game process ends.
GameExit ==
    /\ proc.pid # 0
    /\ proc' = [proc EXCEPT !.pid = 0]
    /\ mem' = EmptyMem
    /\ call' = NoCall
    /\ UNCHANGED <<memory, now, scan, svc>>

NextDeath ==
    \/ GetPlayerDeathStatusCall
    \/ GetLocalImpostorFlagCall
    \/ PlayerDies
    \/ GameExit
    \/ Detach

SpecDeath == InitDeath /\ [][NextDeath]_vars


\* What the three signals of the chain say about the player-info object a
\* death-status call looked at.
DeathNpi == npi_by_color_id(call.args[1])
DeathFields == DeathNpi + ObjFieldsOff(memory.is_64)
IsDeadAt == call.cached_ptr + ObjFieldsOff(memory.is_64) + PtrSize(memory.is_64) * 2 + 2
BlockResolved ==
    /\ call.cached_ptr # 0
    /\ CanRead8(mem, IsDeadAt)
    /\ read_u8(mem, IsDeadAt) \in {0, 1}
RoleResolved ==
    /\ call.role_offset # NoneVal
    /\ CanReadU16(mem, DeathFields + call.role_offset)
BoolHits ==
    {i \in DOMAIN DEATH_BOOL_OFFSETS :
        /\ CanRead8(mem, DeathFields + DEATH_BOOL_OFFSETS[i])
        /\ read_u8(mem, DeathFields + DEATH_BOOL_OFFSETS[i]) \in {0, 1}}

\* C15: the death status of a player whose player-info object was found is
\* the is_dead byte of its CachedPlayerData when that block resolved and the
\* byte is 0 or 1; else whether its role type is one of 4, 6, 7 when a role
\* offset was found and the role was read; else the first fallback byte that
\* is 0 or 1; else None.
C15_DeathPriorityChain ==
    (call.op = "get_player_death_status" /\ call.error \notin
         {"not attached", "player not found", "NPI not found"}) =>
        IF BlockResolved
        THEN call.ret = read_u8(mem, IsDeadAt) /\ call.method = "CachedPlayerData"
        ELSE IF RoleResolved
        THEN /\ call.ret = 1 <=> read_u16(mem, DeathFields + call.role_offset) \in {4, 6, 7}
             /\ call.ret \in {0, 1}
             /\ call.method = "RoleType_inference"
        ELSE IF BoolHits # {}
        THEN /\ call.ret = read_u8(mem, DeathFields + DEATH_BOOL_OFFSETS[Min(BoolHits)])
             /\ call.method = "NPI_bool_fallback"
        ELSE call.ret = NoneVal /\ call.method = ""

\* The role type said dead while a fallback byte said alive, and the
\* answer was the role type's.
C15_Witness ==
    /\ call.op = "get_player_death_status"
    /\ call.method = "RoleType_inference"
    /\ ~BlockResolved
    /\ call.cached_ptr # 0
    /\ call.ret = 1
    /\ BoolHits # {}
    /\ read_u8(mem, DeathFields + DEATH_BOOL_OFFSETS[Min(BoolHits)]) = 0


\* ---------------------------------------------------------------------
\* The three derivations side by side, on a match whose memory the game
\* may release.
\* ---------------------------------------------------------------------

DiagWorlds ==
    {[cpd |-> "alive", role_at |-> "preferred", role |-> 0, flag34 |-> "alive", flag4C |-> "none"],
     [cpd |-> "junk", role_at |-> "later", role |-> 6, flag34 |-> "none", flag4C |-> "dead"],
     [cpd |-> "unreadable", role_at |-> "none", role |-> 0, flag34 |-> "junk", flag4C |-> "none"],
     [cpd |-> "nopc", role_at |-> "none", role |-> 0, flag34 |-> "dead", flag4C |-> "none"]}

InitDiag ==
    /\ \E g \in {Narrow32, Wide64} : \E w \in DiagWorlds :
          /\ proc = g
          /\ mem = DeathMem(g.os_is_64 # "no", w)
          /\ memory = MemoryClient(g, DeathMem(g.os_is_64 # "no", w), Base)
    /\ svc = NewService
    /\ now = StartTime
    /\ call = NoCall
    /\ scan = ToolIdle

NextDiag ==
    \/ GetPlayerDeathStatusCall
    \/ GetLocalImpostorFlagCall
    \/ IsReportButtonActive
    \/ ScannerDecommit
    \/ Detach

SpecDiag == InitDiag /\ [][NextDiag]_vars

\* C16: a derivation that answers None puts an "error" entry that is not
\* empty into its diagnostics.
C16_UndeterminedHasError ==
    /\ (call.op = "is_report_button_active" /\ call.ret = NoneVal) => call.error
    /\ (call.op \in {"get_player_death_status", "get_local_impostor_flag"}
            /\ call.ret = NoneVal) => call.error # ""


\* ---------------------------------------------------------------------
\* CacheManager (cache/manager.py), the result cache of AmongUsReader.
\* Time is counted in ticks; scan holds the manager's _store and, for the
\* statement of the properties, the latest set of every key.
\* ---------------------------------------------------------------------

TtlTicks == 2        \* the TTL of "players", in ticks
MaxCacheTime == 4    \* the last tick of the clock

\* _norm_type: str(type_name or "").strip().lower()
norm_type(name) ==
    CASE name = " Players" -> "players"
      [] name = "TASKS" -> "tasks"
      [] OTHER -> name

\* The _ttl map AmongUsReader builds; get_ttl answers 0.0 for a type the
\* map does not name.
get_ttl(name) ==
    CASE norm_type(name) = "players" -> TtlTicks
      [] norm_type(name) = "tasks" -> TtlTicks + 1
      [] OTHER -> 0

CacheTypeNames == {"players", " Players", "TASKS", "debug"}
CacheSubkeys   == [players |-> {NoneVal}, tasks |-> {0}, debug |-> {NoneVal}]
CacheValues    == {1, 2}

\* A faulty variant: an entry is still served at the very tick it expires.
Expired_Late(ttl, t, expires_at) == ttl > 0 /\ t > expires_at

\* A faulty variant: the expiry test without the test of the TTL.
Expired_ZeroTtl(ttl, t, expires_at) == t >= expires_at

\* "ttl > 0.0 and time.time() >= expires_at"
Expired(ttl, t, expires_at) == ttl > 0 /\ t >= expires_at

\* CacheManager.get
cache_get(store, t, name, subkey) ==
    LET key == <<norm_type(name), subkey>> IN
    IF key \notin DOMAIN store THEN [ret |-> NoneVal, store |-> store]
    ELSE IF Expired(get_ttl(name), t, store[key].expires_at)
         THEN [ret |-> NoneVal, store |-> Drop(store, key)]
    ELSE [ret |-> store[key].value, store |-> store]

\* CacheManager.set
cache_set(store, t, name, value, subkey) ==
    Put(store, <<norm_type(name), subkey>>,
        [expires_at |-> IF get_ttl(name) > 0 THEN t + get_ttl(name) ELSE 0,
         value |-> value])

\* CacheManager.invalidate(types, subkey=None); types = {} stands for None.
cache_invalidate(store, types) ==
    IF types = {} THEN EmptyCache
    ELSE [k \in {x \in DOMAIN store : x[1] \notin {norm_type(n) : n \in types}} |-> store[k]]

\* CacheManager.snapshot(None): expired entries are deleted on the way.
cache_snapshot(store, t) ==
    [k \in {x \in DOMAIN store : ~Expired(get_ttl(x[1]), t, store[x].expires_at)} |-> store[k]]

InitCache ==
    /\ scan = [pc |-> "cache", store |-> EmptyCache, last_set |-> EmptyCache,
               invalidated |-> {}]
    /\ mem = EmptyMem
    /\ memory = NoMemory
    /\ now = 0
    /\ call = NoCall
    /\ proc = Narrow32
    /\ svc = NewService

CacheSet ==
    /\ scan.pc = "cache"
    /\ \E name \in CacheTypeNames : \E v \in CacheValues :
       \E subkey \in CacheSubkeys[norm_type(name)] :
          /\ scan' = [scan EXCEPT
                         !.store = cache_set(@, now, name, v, subkey),
                         !.last_set = Put(@, <<norm_type(name), subkey>>,
                                          [at |-> now, value |-> v]),
                         !.invalidated = @ \ {<<norm_type(name), subkey>>}]
          /\ call' = [op |-> "set", args |-> <<name, v, subkey>>, ret |-> v]
    /\ UNCHANGED <<mem, memory, now, proc, svc>>

CacheGet ==
    /\ scan.pc = "cache"
    /\ \E name \in CacheTypeNames : \E subkey \in CacheSubkeys[norm_type(name)] :
          LET r == cache_get(scan.store, now, name, subkey) IN
          /\ scan' = [scan EXCEPT !.store = r.store]
          /\ call' = [op |-> "get", args |-> <<name, subkey>>, ret |-> r.ret]
    /\ UNCHANGED <<mem, memory, now, proc, svc>>

CacheInvalidate ==
    /\ scan.pc = "cache"
    /\ \E types \in {{}, {" Players"}, {"tasks"}} :
          /\ scan' = [scan EXCEPT
                         !.store = cache_invalidate(@, types),
                         !.invalidated = @ \cup (DOMAIN scan.store \
                                                 DOMAIN cache_invalidate(scan.store, types))]
          /\ call' = [op |-> "invalidate", args |-> <<types>>, ret |-> 0]
    /\ UNCHANGED <<mem, memory, now, proc, svc>>

CacheSnapshot ==
    /\ scan.pc = "cache"
    /\ scan' = [scan EXCEPT !.store = cache_snapshot(@, now)]
    /\ call' = [op |-> "snapshot", args |-> <<>>,
                ret |-> DOMAIN cache_snapshot(scan.store, now)]
    /\ UNCHANGED <<mem, memory, now, proc, svc>>

CacheTick ==
    /\ scan.pc = "cache"
    /\ now < MaxCacheTime
    /\ now' = now + 1
    /\ call' = NoCall
    /\ UNCHANGED <<mem, memory, scan, proc, svc>>

NextCache == CacheSet \/ CacheGet \/ CacheInvalidate \/ CacheSnapshot \/ CacheTick

SpecCache == InitCache /\ [][NextCache]_vars

\* The key a get asked for, and the latest set of it.
GotKey == <<norm_type(call.args[1]), call.args[2]>>
GotAfterSet ==
    /\ call.op = "get"
    /\ get_ttl(call.args[1]) > 0
    /\ GotKey \in DOMAIN scan.last_set
GotAge == now - scan.last_set[GotKey].at

\* C18: for a type of positive TTL t, a get less than t after the latest set
\* of its key returns the value set, and a get at t or later returns None
\* and leaves no entry.
C18_GetWithinTtlReturnsValue ==
    GotAfterSet =>
        IF GotAge < get_ttl(call.args[1])
        THEN call.ret = scan.last_set[GotKey].value
        ELSE call.ret = NoneVal /\ GotKey \notin DOMAIN scan.store

\* C18, amended: the same, for a key that no invalidate has removed since
\* its latest set; a get of a key removed by invalidate returns None.
C18_GetWithinTtlUnlessInvalidated ==
    GotAfterSet =>
        IF GotKey \in scan.invalidated
        THEN call.ret = NoneVal /\ GotKey \notin DOMAIN scan.store
        ELSE IF GotAge < get_ttl(call.args[1])
        THEN /\ call.ret = scan.last_set[GotKey].value
             /\ GotKey \in DOMAIN scan.store
        ELSE call.ret = NoneVal /\ GotKey \notin DOMAIN scan.store

\* A get one tick before the expiry returned the value, under a type name
\* that is normalised.
C18_Witness ==
    /\ GotAfterSet
    /\ call.args[1] = " Players"
    /\ GotKey \notin scan.invalidated
    /\ GotAge = TtlTicks - 1
    /\ call.ret = scan.last_set[GotKey].value
    /\ call.ret = 2


\* ---------------------------------------------------------------------
\* MemoryClient.iter_committed_readable_regions / iter_heap_regions: the
\* walk over the target's address space, one VirtualQueryEx per iteration.
\* Addresses and sizes are counted in units of 0x10000 bytes, the step the
\* loop takes over an address the query fails on.
\* ---------------------------------------------------------------------

MaxQueries == 4      \* loop iterations followed per walk

MEM_COMMIT == 4096
\* MEM_RESERVE, a state the walks do not yield
MEM_RESERVE == 2 * MEM_COMMIT
PAGE_NOACCESS == 1
PAGE_GUARD == 256
READABLE_PROTS == {2, 4, 8, 32, 64, 128}
RW_PROTS == {4, 8, 64, 128}

\* "addr < max_address": 0x7FFFFFFF is passed once 0x8000 units are, and
\* 0x7FFFFFFFFFFF once 0x80000000 units are.
BelowMaxAddress(is_64, addr) == IF is_64 THEN addr <= 2147483647 ELSE addr < 32768

\* The test before "yield (base, size)".
RegionYielded(fn, state, prot) ==
    IF fn = "iter_heap_regions"
    THEN state = MEM_COMMIT /\ prot \in RW_PROTS
    ELSE /\ state = MEM_COMMIT
         /\ prot \in READABLE_PROTS
         /\ prot # PAGE_NOACCESS
         /\ (prot \div PAGE_GUARD) % 2 = 0

\* What VirtualQueryEx may answer for the address addr: failure, or the
\* descriptor of a region.
QueryAnswers(addr) ==
    {[res |-> 0, base |-> 0, size |-> 0, state |-> 0, prot |-> 0]} \cup
    [res : {48},
     base : {addr} \cup (IF addr > 0 THEN {addr - 1} ELSE {}),
     size : {0, 1, 16384},
     state : {MEM_COMMIT, MEM_RESERVE},
     prot : {PAGE_NOACCESS, 4, 4 + PAGE_GUARD}]

RegionWalkFns == {"iter_committed_readable_regions", "iter_heap_regions"}

InitRegions ==
    /\ \E g \in {Narrow32, Wide64} :
          /\ proc = g
          /\ memory = [pid |-> 1, base |-> Base, is_64 |-> g.os_is_64 # "no"]
    /\ mem = EmptyMem
    /\ svc = NewService
    /\ now = StartTime
    /\ call = NoCall
    /\ scan = NoScan

\* The generator is created: addr = 0, count = 0.
IterRegionsCall ==
    /\ scan.pc \in {"idle", "regions_done"}
    /\ \E fn \in RegionWalkFns : \E max_regions \in {1, 2} :
          scan' = [pc |-> "regions", fn |-> fn, max_regions |-> max_regions,
                   addr |-> 0, prev |-> 0, count |-> 0, queries |-> 0, out |-> <<>>]
    /\ call' = NoCall
    /\ UNCHANGED <<mem, memory, now, proc, svc>>

\* One iteration of the while loop.
IterRegionsQuery ==
    /\ scan.pc = "regions"
    /\ BelowMaxAddress(memory.is_64, scan.addr)
    /\ scan.count < scan.max_regions
    /\ scan.queries < MaxQueries
    /\ \E a \in QueryAnswers(scan.addr) :
          scan' = IF a.res = 0
                  THEN [scan EXCEPT !.prev = scan.addr, !.addr = @ + 1,
                                    !.queries = @ + 1]
                  ELSE [scan EXCEPT
                           !.prev = scan.addr,
                           !.addr = a.base + a.size,
                           !.queries = @ + 1,
                           !.count = IF RegionYielded(scan.fn, a.state, a.prot)
                                     THEN @ + 1 ELSE @,
                           !.out = IF RegionYielded(scan.fn, a.state, a.prot)
                                   THEN Append(@, <<a.base, a.size>>) ELSE @]
    /\ UNCHANGED <<mem, memory, now, call, proc, svc>>

\* The loop condition fails: the generator is exhausted.
IterRegionsStop ==
    /\ scan.pc = "regions"
    /\ ~(BelowMaxAddress(memory.is_64, scan.addr) /\ scan.count < scan.max_regions)
    /\ scan' = [scan EXCEPT !.pc = "regions_done"]
    /\ call' = [op |-> scan.fn, args |-> <<scan.max_regions>>, ret |-> scan.out]
    /\ UNCHANGED <<mem, memory, now, proc, svc>>

NextRegions == IterRegionsCall \/ IterRegionsQuery \/ IterRegionsStop

SpecRegions == InitRegions /\ [][NextRegions]_vars

\* C19: a walk yields at most max_regions descriptors, ends only with the
\* maximum address reached or max_regions yielded, and after every
\* iteration its query address is above the address it queried.
C19_RegionWalkAdvances ==
    scan.pc \in {"regions", "regions_done"} =>
        /\ Len(scan.out) <= scan.max_regions
        /\ scan.pc = "regions_done" =>
              (~BelowMaxAddress(memory.is_64, scan.addr) \/ scan.count = scan.max_regions)
        /\ scan.queries > 0 => scan.addr > scan.prev


\* ---------------------------------------------------------------------
\* TaskData records: get_tasks_for_player builds them from the player's
\* task list and then works through the myTasks list of the player's
\* PlayerControl.  An Optional value is <<>> (None) or <<v>>.
\* ---------------------------------------------------------------------

\* Offsets.LIST_TASKINFO_TYPEINFO_RVA
LIST_TASKINFO_TYPEINFO_RVA == 8 * 256

\* task_lookup.system_type_to_name: SYSTEM_TYPE_NAMES.get(int(system_id))
system_type_to_name(system_id) ==
    CASE system_id = 0 -> <<"Hallway">>
      [] system_id = 1 -> <<"Storage">>
      [] system_id = 2 -> <<"Cafeteria">>
      [] system_id = 3 -> <<"Reactor">>
      [] OTHER -> <<>>

\* TaskData(task_id=..., task_type_id=..., is_completed=...): the record as
\* the constructor leaves it.
TaskData(task_id, task_type_id, is_completed) ==
    [task_id |-> task_id, task_type_id |-> task_type_id, is_completed |-> is_completed,
     step |-> <<>>, max_step |-> <<>>, start_system |-> <<>>, location |-> <<>>]

RECURSIVE TaskRecords(_)
TaskRecords(ts) ==
    IF ts = <<>> THEN <<>>
    ELSE <<TaskData(Head(ts).task_id, Head(ts).task_type_id, Head(ts).is_completed)>>
             \o TaskRecords(Tail(ts))

\* _get_tasks_list_from_npi
get_tasks_list_from_npi(s, mc, m, npi_ptr) ==
    IF npi_ptr = 0 THEN Ret(s, 0) ELSE
    Bind(class_by_rva_or_name(s, mc, m, LIST_TASKINFO_TYPEINFO_RVA,
                              "list_1_networkedplayerinfo_taskinfo_"), LAMBDA k :
    IF k.raised THEN Ret(k.s, 0)
    ELSE Ret(k.s, scan_fields_for_class(m, mc.is_64, npi_ptr + ObjFieldsOff(mc.is_64),
                                        1024, k.v)))

\* _find_myTasks_list_by_owner: the first field of the PlayerControl that
\* refers to a list of which enough of the first six elements refer back to
\* the PlayerControl.  Nothing is committed at HighAddr, so a header read
\* there fails as it does at any uncommitted address.
IsMyTasksList(mc, m, lst, pc_ptr) ==
    /\ lst # 0
    /\ lst # HighAddr
    /\ ListHeaderReadable(m, mc.is_64, lst)
    /\ ListAccepted(read_ptr(m, mc.is_64, ListItemsAddr(mc.is_64, lst)),
                    read_int(m, ListSizeAddr(mc.is_64, lst)), LIST_CEILING)
    /\ LET items == read_ptr(m, mc.is_64, ListItemsAddr(mc.is_64, lst))
           size  == read_int(m, ListSizeAddr(mc.is_64, lst))
           total == IF size < 6 THEN size ELSE 6
           ok == {i \in 0..(total - 1) :
                     /\ CanReadPtr(m, mc.is_64, ListElemAddr(mc.is_64, items, i))
                     /\ read_ptr(m, mc.is_64, ListElemAddr(mc.is_64, items, i))
                            \notin {0, HighAddr}
                     /\ object_fields_contains_ptr(mc, m,
                            read_ptr(m, mc.is_64, ListElemAddr(mc.is_64, items, i)),
                            pc_ptr, 288)}
       IN  Cardinality(ok) >= (IF total \div 2 > 2 THEN total \div 2 ELSE 2)

find_myTasks_list_by_owner(mc, m, pc_ptr) ==
    LET base == pc_ptr + ObjFieldsOff(mc.is_64)
        hits == {cur \in DOMAIN m :
                    /\ cur >= base /\ cur < base + 5120
                    /\ (cur - base) % PtrSize(mc.is_64) = 0
                    /\ CanReadPtr(m, mc.is_64, cur)
                    /\ IsMyTasksList(mc, m, read_ptr(m, mc.is_64, cur), pc_ptr)}
    IN  IF pc_ptr = 0 \/ hits = {} THEN 0 ELSE read_ptr(m, mc.is_64, Min(hits))

\* _read_tasktype_from_playertask: (ttype, tid_val, start_at) around the
\* first field that holds the owner.  An id above 2^31 - 1 is kept as
\* HighAddr.
read_tasktype_from_playertask(mc, m, obj_ptr, pc_ptr) ==
    LET base == obj_ptr + ObjFieldsOff(mc.is_64)
        ps   == PtrSize(mc.is_64)
        offs == {off \in {k * ps : k \in 0..((128 \div ps) - 1)} :
                    /\ CanReadPtr(m, mc.is_64, base + off)
                    /\ read_ptr(m, mc.is_64, base + off) = pc_ptr}
        OptInt(a) == IF CanRead32(m, a) THEN <<read_int(m, a)>> ELSE <<>>
    IN  IF offs = {} THEN [ttype |-> <<>>, tid |-> <<>>, start_at |-> <<>>]
        ELSE [ttype |-> OptInt(base + Min(offs) + ps + 4),
              tid |-> IF CanRead32(m, base + Min(offs) - 4)
                      THEN <<AddrOf(read_u32(m, base + Min(offs) - 4))>> ELSE <<>>,
              start_at |-> OptInt(base + Min(offs) + ps)]

\* _read_step_info_heuristic: the best-scoring pair (a, b) of neighbouring
\* integers, the first of them on a tie.
StepScore(a, b, completed_hint) ==
    (IF b <= 7 THEN 2 ELSE 0) + (IF a <= 3 THEN 1 ELSE 0)
        + (IF completed_hint /\ a = b THEN 2 ELSE 0)
        + (IF ~completed_hint /\ a < b THEN 1 ELSE 0)

read_step_info_heuristic(mc, m, obj_ptr, completed_hint) ==
    LET base == obj_ptr + ObjFieldsOff(mc.is_64)
        A(off) == read_int(m, base + off)
        B(off) == read_int(m, base + off + 4)
        offs == {off \in {x - base : x \in DOMAIN m} :
                    /\ off >= 16 /\ off < 512 /\ off % 4 = 0
                    /\ CanRead32(m, base + off + 4)
                    /\ A(off) >= 0 /\ A(off) <= 16
                    /\ B(off) >= 1 /\ B(off) <= 16
                    /\ A(off) <= B(off)}
        top  == {off \in offs : \A o \in offs :
                    StepScore(A(o), B(o), completed_hint)
                        <= StepScore(A(off), B(off), completed_hint)}
    IN  IF offs = {} THEN <<>> ELSE <<A(Min(top)), B(Min(top))>>

\* The body of "for obj in objs" for one PlayerTask object.  t.tasks are the
\* records as they are now, t.built the same records as their constructor
\* left them.
EnrichOne(mc, m, t, obj, pc_ptr) ==
    Bind(read_tasktype_from_playertask(mc, m, obj, pc_ptr), LAMBDA r :
    IF r.tid = <<>> THEN t
    ELSE
    Bind({i \in DOMAIN t.tasks : t.tasks[i].task_id = r.tid[1]}, LAMBDA known :
    Bind(TaskData(r.tid[1], IF r.ttype = <<>> THEN 0 - 1 ELSE r.ttype[1], FALSE),
         LAMBDA fresh :
    Bind([tasks |-> IF known = {} THEN Append(t.tasks, fresh) ELSE t.tasks,
          built |-> IF known = {} THEN Append(t.built, fresh) ELSE t.built,
          i     |-> IF known = {} THEN Len(t.tasks) + 1 ELSE Max(known)], LAMBDA u :
    Bind(IF r.ttype = <<>> THEN u.tasks[u.i]
         ELSE [u.tasks[u.i] EXCEPT !.task_type_id = r.ttype[1]], LAMBDA td1 :
    Bind(IF r.start_at = <<>> THEN td1
         ELSE [td1 EXCEPT !.start_system = r.start_at,
                          !.location = system_type_to_name(r.start_at[1])], LAMBDA td2 :
    Bind(read_step_info_heuristic(mc, m, obj, td2.is_completed), LAMBDA sm :
    Bind(IF sm = <<>> THEN [td2 EXCEPT !.step = <<>>, !.max_step = <<>>]
         ELSE [td2 EXCEPT !.step = <<sm[1]>>, !.max_step = <<sm[2]>>], LAMBDA td3 :
    [tasks |-> [u.tasks EXCEPT ![u.i] =
                   IF sm # <<>> /\ sm[2] > 0 /\ sm[1] >= sm[2]
                   THEN [td3 EXCEPT !.is_completed = TRUE] ELSE td3],
     built |-> u.built]))))))))

RECURSIVE EnrichAll(_, _, _, _, _)
EnrichAll(mc, m, t, objs, pc_ptr) ==
    IF objs = <<>> THEN t
    ELSE Bind(EnrichOne(mc, m, t, Head(objs), pc_ptr), LAMBDA t1 :
         EnrichAll(mc, m, t1, Tail(objs), pc_ptr))

\* get_tasks_for_player, from the player-info object the player id led to.
get_tasks_for_player(s, mc, m, npi) ==
    LET none == [s |-> s, tasks |-> <<>>, built |-> <<>>] IN
    IF ~Attached(mc) \/ npi = 0 THEN none ELSE
    Bind(get_tasks_list_from_npi(s, mc, m, npi), LAMBDA tl :
    IF tl.v = 0 THEN [none EXCEPT !.s = tl.s] ELSE
    Bind(TaskRecords(parse_tasks_from_list(mc, m, tl.v).out), LAMBDA tasks :
    Bind(get_player_control_from_npi(tl.s, mc, m, npi), LAMBDA pc :
    IF pc.v = 0 \/ tasks = <<>> THEN [s |-> pc.s, tasks |-> tasks, built |-> tasks] ELSE
    Bind(find_myTasks_list_by_owner(mc, m, pc.v), LAMBDA lst :
    Bind(IF lst = 0 THEN <<>> ELSE read_list_items(mc, m, lst).out, LAMBDA objs :
    Bind(EnrichAll(mc, m, [tasks |-> tasks, built |-> tasks], objs, pc.v), LAMBDA t :
    [s |-> pc.s, tasks |-> t.tasks, built |-> t.built]))))))


\* The local player's objects.
\*   w.mytasks   the number of PlayerTask objects in myTasks (0: no list)
\*   w.id1, w.id2  the task ids the first two PlayerTask objects carry
\*   w.steps     the step pair the PlayerTask objects carry
\*   w.done      whether the first TaskInfo is completed
\*   w.start     whether the PlayerTask objects' start system can be read
KListTask   == Base + 19 * Half
TNpi        == HeapStart + 64 * 256
TaskListObj == HeapStart + 65 * 256
TaskItems   == HeapStart + 66 * 256
TaskInfo(i) == HeapStart + (66 + i) * 256
PcT         == HeapStart + 70 * 256
MyTasksObj  == HeapStart + 71 * 256
MyItems     == HeapStart + 72 * 256
PlayerTask(j) == HeapStart + (72 + j) * 256

TaskWorlds ==
    [mytasks : {0, 2, 3}, id1 : {0, 5}, id2 : {0, 1},
     steps : {"none", "half", "full"}, done : BOOLEAN, start : BOOLEAN]

TaskMem(is_64, w) ==
    LET fo == ObjFieldsOff(is_64)
        ps == PtrSize(is_64)
        P(a, p) == PutPtr(is_64, a, p)
        Info(i, done) ==
            MergeAll(<<P(ListElemAddr(is_64, TaskItems, i - 1), TaskInfo(i)),
                       Cell(TaskInfo(i) + fo, W(i - 1)),
                       Cell(TaskInfo(i) + fo + 4, W(3 + i + 256 * (IF done THEN 1 ELSE 0)))>>)
        Task(j, id) ==
            MergeAll(<<P(ListElemAddr(is_64, MyItems, j - 1), PlayerTask(j)),
                       Cell(PlayerTask(j) + fo + 4, W(id)),
                       P(PlayerTask(j) + fo + 8, PcT),
                       IF w.start THEN Cell(PlayerTask(j) + fo + 8 + ps, W(j)) ELSE EmptyMem,
                       Cell(PlayerTask(j) + fo + 8 + ps + 4, W(8 + j)),
                       IF w.steps = "none" THEN EmptyMem
                       ELSE Merge(Cell(PlayerTask(j) + fo + 32,
                                       W(IF w.steps = "half" THEN 1 ELSE 2)),
                                  Cell(PlayerTask(j) + fo + 36, W(2)))>>)
    IN  MergeAll(<<
            P(Base + PC_TYPEINFO_RVA, KPC),
            P(Base + LIST_TASKINFO_TYPEINFO_RVA, KListTask),
            P(TNpi + fo + 16, TaskListObj),
            P(TNpi + fo + 80, PcT),
            P(PcT, KPC),
            P(TaskListObj, KListTask),
            P(ListItemsAddr(is_64, TaskListObj), TaskItems),
            Cell(ListSizeAddr(is_64, TaskListObj), W(2)),
            Info(1, w.done),
            Info(2, FALSE),
            IF w.mytasks = 0 THEN EmptyMem
            ELSE MergeAll(<<P(PcT + fo + 16, MyTasksObj),
                            P(ListItemsAddr(is_64, MyTasksObj), MyItems),
                            Cell(ListSizeAddr(is_64, MyTasksObj), W(w.mytasks)),
                            Task(1, w.id1),
                            Task(2, w.id2),
                            IF w.mytasks = 3 THEN Task(3, 1) ELSE EmptyMem>>)>>)

InitTasks ==
    /\ \E g \in {Narrow32, Wide64} : \E w \in TaskWorlds :
          /\ proc = g
          /\ mem = TaskMem(g.os_is_64 # "no", w)
          /\ memory = MemoryClient(g, TaskMem(g.os_is_64 # "no", w), Base)
    /\ svc = NewService
    /\ now = StartTime
    /\ call = NoCall
    /\ scan = NoScan

\* get_tasks_for_player(player_id): player 0 is the local player, whose
\* player-info object is TNpi; no player-info object is found for player 9.
GetTasksForPlayerCall ==
    /\ \E player_id \in {0, 9} :
          LET r == get_tasks_for_player(svc, memory, mem,
                                        IF player_id = 0 THEN TNpi ELSE 0) IN
          /\ svc' = r.s
          /\ call' = [op |-> "get_tasks_for_player", args |-> <<player_id>>,
                      ret |-> r.tasks, built |-> r.built]
    /\ UNCHANGED <<mem, memory, now, scan, proc>>

NextTasks == GetTasksForPlayerCall \/ Detach

SpecTasks == InitTasks /\ [][NextTasks]_vars

\* C20: every TaskData record get_tasks_for_player returns is as its
\* constructor left it: no field was assigned after construction.
C20_RecordsNeverAssigned ==
    call.op = "get_tasks_for_player" => call.ret = call.built


\* ---------------------------------------------------------------------
\* AmongUsReader: the getters in front of the CacheManager, with attach
\* and detach.  Each call takes one tick of the clock.  The value a getter
\* resolves from the data service is an input; a player list is kept as
\* its length.
\* ---------------------------------------------------------------------
MaxReaderTime == 4   \* the last tick at which a call is made

\* The _ttl map, for the types that SpecCache does not use: colors 1.0,
\* hud 1.5, local_role 0.3, session 0.3 against players 0.15 and tasks 3.0.
reader_ttl(name) ==
    CASE name \in {"local_role", "session"} -> TtlTicks
      [] name \in {"colors", "hud"} -> TtlTicks + 1
      [] OTHER -> get_ttl(name)

\* The subkeys the getters use; a string subkey is kept as a number next
\* to the colour id that get_tasks uses.
SubkeyCode == [report |-> 1, impostor |-> 2, state |-> 3]

ReaderGetters == {"list_players", "colors", "count", "get_tasks",
                  "is_report_active", "is_local_impostor", "get_session_state"}

\* The (type, subkey) a getter asks the cache for.
GetterKey(g) ==
    CASE g \in {"list_players", "count"} -> <<"players", NoneVal>>
      [] g = "colors" -> <<"colors", NoneVal>>
      [] g = "get_tasks" -> <<"tasks", 0>>
      [] g = "is_report_active" -> <<"hud", SubkeyCode.report>>
      [] g = "is_local_impostor" -> <<"local_role", SubkeyCode.impostor>>
      [] g = "get_session_state" -> <<"session", SubkeyCode.state>>

ReaderValues == {1, 2}

\* CacheManager.get and set under the reader's _ttl map.
reader_cache_get(store, t, key) ==
    IF key \notin DOMAIN store THEN [ret |-> NoneVal, store |-> store]
    ELSE IF Expired(reader_ttl(key[1]), t, store[key].expires_at)
         THEN [ret |-> NoneVal, store |-> Drop(store, key)]
    ELSE [ret |-> store[key].value, store |-> store]

reader_cache_set(store, t, key, value) ==
    Put(store, key,
        [expires_at |-> IF reader_ttl(key[1]) > 0 THEN t + reader_ttl(key[1]) ELSE 0,
         value |-> value])

\* The data service attaches by itself when a getter reaches it detached;
\* is_report_button_active does not.
LazyAttach(g, mc, p, m) ==
    IF Attached(mc) \/ g = "is_report_active" THEN mc ELSE MemoryClient(p, m, Base)

InitReader ==
    /\ \E g \in {Narrow32, Wide64} :
          /\ proc = g
          /\ mem = Image(g.os_is_64 # "no", ImageA)
          /\ memory = MemoryClient(g, Image(g.os_is_64 # "no", ImageA), Base)
    /\ svc = NewService
    /\ now = 0
    /\ call = NoCall
    /\ scan = [pc |-> "reader", store |-> EmptyCache, before_detach |-> {}]

\* A getter: "cached = self._cache.get(...); if cached is not None: return
\* cached", else the value from the data service, stored with set; count()
\* does not store.  before_detach names the entries stored before the
\* latest detach; hit says that the value came from the cache.
ReaderGet ==
    /\ scan.pc = "reader"
    /\ now < MaxReaderTime
    /\ \E g \in ReaderGetters : \E fresh \in ReaderValues :
          LET key == GetterKey(g)
              r   == reader_cache_get(scan.store, now, key)
              hit == r.ret # NoneVal
              store1 == IF hit \/ g = "count" THEN r.store
                        ELSE reader_cache_set(r.store, now, key, fresh)
          IN  /\ scan' = [scan EXCEPT
                            !.store = store1,
                            !.before_detach =
                                IF hit THEN @ ELSE @ \ {key}]
              /\ call' = [op |-> g, args |-> <<key>>,
                          ret |-> IF hit THEN r.ret ELSE fresh,
                          hit |-> hit,
                          stale |-> hit /\ key \in scan.before_detach]
              /\ memory' = IF hit THEN memory ELSE LazyAttach(g, memory, proc, mem)
              /\ svc' = IF hit \/ Attached(memory) \/ g = "is_report_active" THEN svc
                        ELSE [svc EXCEPT !.class_cache = EmptyCache]
    /\ now' = now + 1
    /\ UNCHANGED <<mem, proc>>

\* AmongUsReader.detach: self._ds.detach()
ReaderDetach ==
    /\ scan.pc = "reader"
    /\ now < MaxReaderTime
    /\ memory' = NoMemory
    /\ svc' = detach(svc)
    /\ scan' = [scan EXCEPT !.before_detach = DOMAIN scan.store]
    /\ call' = [op |-> "detach", args |-> <<>>, ret |-> 0]
    /\ now' = now + 1
    /\ UNCHANGED <<mem, proc>>

\* AmongUsReader.attach: self._ds.attach(process_name)
ReaderAttach ==
    /\ scan.pc = "reader"
    /\ now < MaxReaderTime
    /\ memory' = MemoryClient(proc, mem, Base)
    /\ svc' = [svc EXCEPT !.class_cache = EmptyCache]
    /\ call' = [op |-> "attach", args |-> <<>>, ret |-> 1]
    /\ now' = now + 1
    /\ UNCHANGED <<mem, scan, proc>>

\* AmongUsReader.invalidate(None): self._cache.invalidate(None)
ReaderInvalidate ==
    /\ scan.pc = "reader"
    /\ now < MaxReaderTime
    /\ scan' = [scan EXCEPT !.store = EmptyCache, !.before_detach = {}]
    /\ call' = [op |-> "invalidate", args |-> <<>>, ret |-> 0]
    /\ now' = now + 1
    /\ UNCHANGED <<mem, memory, svc, proc>>

NextReader == ReaderGet \/ ReaderDetach \/ ReaderAttach \/ ReaderInvalidate

SpecReader == InitReader /\ [][NextReader]_vars

\* C21: no getter returns a value that was stored in the cache before the
\* latest detach.
C21_NoValueFromBeforeDetach ==
    call.op \in ReaderGetters => ~call.stale


\* ---------------------------------------------------------------------
\* _get_report_button_ptr: the strategies one call goes through, in the
\* order it enters them.  A strategy is entered when the code reaches its
\* call, whether or not the time budget leaves it anything to scan.
\*   cached       the class check of _report_ptr_cache
\*   fields       the span scan of the HUD object's fields
\*   heap         the heap scan for instances of the button classes
\*   label        _find_report_button_by_label
\*   xref         _find_button_by_string_xref
\*   fingerprint  _find_object_by_method_signature over the report methods
\*   seeds        the search from the objects found by the seed methods
\* ---------------------------------------------------------------------

slow_path_strategies(s, mc, m, alive) ==
    Bind(ForButtonNames(s, mc, m, 1, [op |-> "heap", alive |-> alive]), LAMBDA a :
    IF a.raised \/ a.v # 0 THEN <<"heap">>
    ELSE
    Bind(find_report_button_by_label(a.s, mc, m, alive), LAMBDA b :
    IF b.raised \/ b.v # 0 THEN <<"heap", "label">>
    ELSE
    Bind(get_string_va(b.s, mc, "report").v, LAMBDA str_va :
    Bind(find_button_by_xref(b.s, mc, m, alive, 8), LAMBDA x :
    Bind(IF str_va # 0 THEN <<"heap", "label", "xref">> ELSE <<"heap", "label">>,
         LAMBDA sofar :
    IF x.v # 0 THEN sofar
    ELSE
    Bind(IF alive >= 9
         THEN find_object_by_method_signature(
                  mc, m, {mc.base + y : y \in REPORT_METHOD_RVAS})
         ELSE 0, LAMBDA sig :
    IF sig # 0 THEN Append(sofar, "fingerprint")
    ELSE sofar \o <<"fingerprint", "seeds">>))))))

report_button_strategies(s, mc, m, t, hud_in_time, alive) ==
    Bind(report_cache_check(s, mc, m), LAMBDA c1 :
    Bind(IF s.report_ptr_cache # 0 THEN <<"cached">> ELSE <<>>, LAMBDA pre :
    IF ~c1.raised /\ c1.v # 0 THEN pre
    ELSE
    Bind(get_hudmanager_instance_ptr(c1.s, mc, m, hud_in_time), LAMBDA h :
    Bind(IF h.v = 0 THEN Ret(h.s, 0)
         ELSE ForButtonNames(h.s, mc, m, 1,
                             [op |-> "fields", base |-> h.v + ObjFieldsOff(mc.is_64)]),
         LAMBDA f :
    Bind(IF h.v # 0 THEN Append(pre, "fields") ELSE pre, LAMBDA sofar :
    IF f.raised \/ f.v # 0 THEN sofar
    ELSE IF t - f.s.report_scan_last < REPORT_SCAN_MIN_INTERVAL THEN sofar
    ELSE sofar \o slow_path_strategies([f.s EXCEPT !.report_scan_last = t],
                                       mc, m, alive))))))

\* _get_report_button_ptr, with the strategies it entered.
ResolveReportButton ==
    /\ Attached(memory)
    /\ \E hud_in_time \in BOOLEAN, alive \in Cuts :
          LET r == get_report_button_ptr(svc, memory, mem, now, hud_in_time, alive) IN
          /\ svc' = r.s
          /\ call' = [op |-> "_get_report_button_ptr", args |-> <<>>,
                      ret |-> r.v, cached |-> r.cached,
                      entered |-> report_button_strategies(svc, memory, mem, now,
                                                           hud_in_time, alive)]
    /\ UNCHANGED <<mem, memory, now, scan, proc>>

NextStrategies == ResolveReportButton \/ GameWrite \/ Clock \/ Attach \/ Detach

SpecStrategies == Init /\ [][NextStrategies]_vars

\* The place of a strategy in the order cached pointer, span scan of the
\* HUD, heap scan, fingerprint scan, string cross-reference scan.
StrategyRank == [cached |-> 1, fields |-> 2, heap |-> 3, fingerprint |-> 4, xref |-> 5]

\* C22: the strategies a call enters are entered in that order, the string
\* cross-reference scan only after the fingerprint scan, and a hit is
\* stored in _report_ptr_cache and returned.
C22_StrategiesInOrder ==
    call.op = "_get_report_button_ptr" =>
        /\ \A i, j \in DOMAIN call.entered :
              (/\ i < j
               /\ call.entered[i] \in DOMAIN StrategyRank
               /\ call.entered[j] \in DOMAIN StrategyRank)
                  => StrategyRank[call.entered[i]] < StrategyRank[call.entered[j]]
        /\ call.ret # 0 => svc.report_ptr_cache = call.ret


\* ---------------------------------------------------------------------
\* _get_cached_playerdata_ptr while the game moves the CachedPlayerData
\* reference among the fields of the PlayerControl, clears it, or lets it
\* refer to an object of another class.
\* ---------------------------------------------------------------------

\* The field offsets the reference may sit at, and what may be there.
CpdFieldOffsets == {16, 32}
CpdFieldTargets == {0, CpdObj, HudObj}

PlayerDataMoves ==
    /\ \E off \in CpdFieldOffsets : \E target \in CpdFieldTargets :
          mem' = Merge(PutPtr(proc.os_is_64 # "no",
                              PcObj + ObjFieldsOff(proc.os_is_64 # "no") + off, target),
                       mem)
    /\ call' = NoCall
    /\ UNCHANGED <<memory, now, scan, proc, svc>>

\* The offsets of the field span at which check_at passes.
PassingOffsets(mc, m, pc_ptr, klass) ==
    {off \in {x - (pc_ptr + ObjFieldsOff(mc.is_64)) : x \in DOMAIN m} :
        /\ off >= 0 /\ off < 64 * PtrSize(mc.is_64)
        /\ off % PtrSize(mc.is_64) = 0
        /\ check_at(mc, m, pc_ptr + ObjFieldsOff(mc.is_64), klass, off) # 0}

\* The offset cached for the architecture, or None.
CachedOffset(s, mc) ==
    IF mc.is_64 \in DOMAIN s.cached_playerdata_ptr_off
    THEN s.cached_playerdata_ptr_off[mc.is_64] ELSE NoneVal

\* _get_cached_playerdata_ptr(pc_ptr), with the class it resolved and the
\* offset that was cached when it was called.
GetCachedPlayerdataPtrCall ==
    /\ \E pc_ptr \in {0, PcObj} :
          LET r == get_cached_playerdata_ptr(svc, memory, mem, pc_ptr) IN
          /\ svc' = r.s
          /\ call' = [op |-> "_get_cached_playerdata_ptr", args |-> <<pc_ptr>>,
                      ret |-> r.v,
                      klass |-> get_cached_playerdata_class(svc, memory, mem).v,
                      before |-> CachedOffset(svc, memory)]
    /\ UNCHANGED <<mem, memory, now, scan, proc>>

NextPlayerData == GetCachedPlayerdataPtrCall \/ PlayerDataMoves \/ Attach \/ Detach

SpecPlayerData == Init /\ [][NextPlayerData]_vars

CpdFields == PcObj + ObjFieldsOff(memory.is_64)
CpdCallResolved ==
    /\ call.op = "_get_cached_playerdata_ptr"
    /\ call.args[1] # 0
    /\ Attached(memory)
    /\ call.klass # 0
CpdStale ==
    /\ call.before # NoneVal
    /\ check_at(memory, mem, CpdFields, call.klass, call.before) = 0

\* C23: with a player pointer and a resolved class, a cached offset that
\* still passes the class check is used and kept; one that fails it is
\* removed and the whole span is searched; afterwards the cache holds no
\* entry and the result is 0, or it holds the offset whose check passed
\* and the result is the object found there.
C23_StaleOffsetSelfHeals ==
    CpdCallResolved =>
        LET passing == PassingOffsets(memory, mem, PcObj, call.klass)
            after   == CachedOffset(svc, memory)
        IN  /\ IF call.before # NoneVal /\ ~CpdStale
               THEN after = call.before
               ELSE IF passing = {} THEN after = NoneVal
               ELSE after = Min(passing)
            /\ IF after = NoneVal THEN call.ret = 0
               ELSE /\ call.ret # 0
                    /\ call.ret = check_at(memory, mem, CpdFields, call.klass, after)

\* A call found its cached offset stale and the reference at another offset.
C23_Witness ==
    /\ CpdCallResolved
    /\ CpdStale
    /\ call.ret = CpdObj
    /\ CachedOffset(svc, memory) # call.before


\* ---------------------------------------------------------------------
\* is_report_button_active while the game rewrites the word that holds the
\* report button's flag.
\* ---------------------------------------------------------------------

\* The words the game may leave at a committed flag position of a button.
FlagWords == {W(0), W(1), W(7)}

ButtonFlagWrite ==
    /\ \E where \in {"heap", "data"} : \E w \in FlagWords :
          LET a == ButtonAt(where) + ObjFieldsOff(proc.os_is_64 # "no") + 40 IN
          /\ a \in DOMAIN mem
          /\ mem[a] # w
          /\ mem' = Merge(Cell(a, w), mem)
    /\ call' = NoCall
    /\ UNCHANGED <<memory, now, scan, proc, svc>>

NextOffsets == IsReportButtonActive \/ ButtonFlagWrite \/ Clock \/ Attach \/ Detach

SpecOffsets == Init /\ [][NextOffsets]_vars

\* C24: an answer of is_report_button_active is read at an offset whose
\* byte is 0 or 1: a cached offset whose byte is anything else is evicted
\* and the candidate search runs again in that call.
C24_CachedOffsetRevalidated ==
    (call.op = "is_report_button_active" /\ call.off # NoneVal) =>
        /\ read_u8(mem, call.rb + ObjFieldsOff(memory.is_64) + call.off) \in {0, 1}
        /\ svc.report_bool_off_cache = call.off


\* ---------------------------------------------------------------------
\* MemoryClient._detect_architecture over every process the three signals
\* can describe: SpecArch.
\* ---------------------------------------------------------------------

\* os_is_64: pymem's is_64_bit answers yes or no, or raises.  wow64:
\* IsWow64Process says yes or no, or fails.  host_64: the reader's own
\* pointer size is 8.
Processes ==
    [pid : {1}, os_is_64 : {"yes", "no", "raise"}, host_64 : BOOLEAN,
     wow64 : {"yes", "no", "fail"}]

\* The word at base + 0x14: not readable, zero, or not zero.
HeaderWords == {EmptyMem, Cell(Base + 20, W(0)), Cell(Base + 20, W(1))}

\* The signals _detect_architecture consults, in the order it consults
\* them: the WOW64 check and the probe run only while is_64 is still False.
signals_consulted(p, m, base) ==
    LET first  == IF p.os_is_64 = "raise" THEN p.host_64 ELSE p.os_is_64 = "yes"
        second == IF ~first /\ p.wow64 = "no" /\ p.host_64 THEN TRUE ELSE first
    IN  <<"os">> \o (IF ~first THEN <<"wow64">> ELSE <<>>)
                 \o (IF ~second THEN <<"probe">> ELSE <<>>)

InitArch ==
    /\ proc \in Processes
    /\ mem \in HeaderWords
    /\ memory = MemoryClient(proc, mem, Base)
    /\ svc = NewService
    /\ now = 0
    /\ call = NoCall
    /\ scan = NoScan

\* MemoryClient(process_name): __init__ ends with _detect_architecture.
MemoryClientInit ==
    /\ memory' = MemoryClient(proc, mem, Base)
    /\ call' = [op |-> "MemoryClient", args |-> <<>>,
                ret |-> detect_architecture(proc, mem, Base),
                consulted |-> signals_consulted(proc, mem, Base)]
    /\ UNCHANGED <<mem, now, scan, proc, svc>>

\* MemoryClient.close, through AmongUsDataService.detach
MemoryClientClose ==
    /\ Attached(memory)
    /\ memory' = NoMemory
    /\ call' = [op |-> "close", args |-> <<>>, ret |-> FALSE, consulted |-> <<>>]
    /\ UNCHANGED <<mem, now, scan, proc, svc>>

NextArch == MemoryClientInit \/ MemoryClientClose

SpecArch == InitArch /\ [][NextArch]_vars

\* C25: when the OS bit-width query answers, wide or narrow, its answer is
\* the result and no later signal is consulted.
C25_FirstConclusiveSignalWins ==
    (call.op = "MemoryClient" /\ proc.os_is_64 # "raise") =>
        /\ call.ret = (proc.os_is_64 = "yes")
        /\ call.consulted = <<"os">>


\* ---------------------------------------------------------------------
\* MetaIndex: the type-info lookups over a loaded metadata document, with
\* the _typeinfo_cache dictionary both of them use.  A string is the
\* sequence of its characters.
\* ---------------------------------------------------------------------
MaxEntries == 2      \* the longest typeInfoPointers list

\* str.lower() on the characters that occur.
LowerChar(c) == CASE c = "H" -> "h" [] c = "X" -> "x" [] OTHER -> c
Lower(s) == [i \in DOMAIN s |-> LowerChar(s[i])]

\* s.endswith(t) and "t in s"
EndsWith(s, t) ==
    /\ Len(t) <= Len(s)
    /\ SubSeq(s, Len(s) - Len(t) + 1, Len(s)) = t
Contains(s, t) ==
    \E i \in 1..(Len(s) - Len(t) + 1) : SubSeq(s, i, i + Len(t) - 1) = t

\* The code points by which sorted() orders strings.
Ord(c) ==
    CASE c = " " -> 32 [] c = "." -> 46 [] c = "/" -> 47
      [] c = "H" -> 72 [] c = "X" -> 88 [] c = "_" -> 95
      [] c = "h" -> 104 [] c = "x" -> 120 [] c = "|" -> 124
      [] OTHER -> 48

RECURSIVE StrLess(_, _)
StrLess(a, b) ==
    IF b = <<>> THEN FALSE
    ELSE IF a = <<>> THEN TRUE
    ELSE IF Head(a) # Head(b) THEN Ord(Head(a)) < Ord(Head(b))
    ELSE StrLess(Tail(a), Tail(b))

\* sorted(list of strings)
RECURSIVE Sorted(_)
Sorted(l) ==
    IF l = <<>> THEN <<>>
    ELSE LET least == CHOOSE i \in DOMAIN l : \A j \in DOMAIN l : ~StrLess(l[j], l[i])
             rest  == [k \in 1..(Len(l) - 1) |-> IF k < least THEN l[k] ELSE l[k + 1]]
         IN  <<l[least]>> \o Sorted(rest)

\* "|".join(l)
RECURSIVE Join(_)
Join(l) ==
    IF l = <<>> THEN <<>>
    ELSE IF Len(l) = 1 THEN l[1]
    ELSE l[1] \o <<"|">> \o Join(Tail(l))

\* int(text, 16), for a text of hexadecimal digits behind "0x".
HexDigit(c) == CASE c = "0" -> 0 [] c = "1" -> 1 [] c = "2" -> 2 [] c = "a" -> 10
RECURSIVE HexDigits(_)
HexDigits(t) ==
    IF t = <<>> THEN 0 ELSE 16 * HexDigits(SubSeq(t, 1, Len(t) - 1)) + HexDigit(t[Len(t)])
HexValue(t) ==
    IF Len(t) >= 2 /\ SubSeq(t, 1, 2) = <<"0", "x">> THEN HexDigits(SubSeq(t, 3, Len(t)))
    ELSE HexDigits(t)

\* The key the two lookups file a result under.
name_key(name_substr) == Lower(name_substr)
subs_key(subs) == Join(Sorted([i \in DOMAIN subs |-> Lower(subs[i])]))

\* The first pass of get_typeinfo_rva_by_name: the canonical label is the
\* key or ends with "." + key or "/" + key.
LabelMatches(item, key) ==
    LET dn == Lower(item.dotNetType) IN
    \/ dn = key
    \/ EndsWith(dn, <<".">> \o key)
    \/ EndsWith(dn, <<"/">> \o key)

\* The second pass: the internal name contains the key.
NameContains(item, key) == Contains(Lower(item.name), key)

\* MetaIndex.get_typeinfo_rva_by_name
get_typeinfo_rva_by_name(tips, cache, name_substr) ==
    LET key   == name_key(name_substr)
        pass1 == {i \in DOMAIN tips : LabelMatches(tips[i], key)}
        pass2 == {i \in DOMAIN tips : NameContains(tips[i], key)}
        Found(i) == [ret |-> HexValue(tips[i].virtualAddress),
                     cache |-> Put(cache, key, HexValue(tips[i].virtualAddress))]
    IN  IF key \in DOMAIN cache THEN [ret |-> cache[key], cache |-> cache]
        ELSE IF pass1 # {} THEN Found(Min(pass1))
        ELSE IF pass2 # {} THEN Found(Min(pass2))
        ELSE [ret |-> 0, cache |-> cache]

\* The test of get_typeinfo_rva_by_substrings: every substring occurs in
\* "dotNetType name type".
BlobMatches(item, subs) ==
    LET blob == Lower(item.dotNetType) \o <<" ">> \o Lower(item.name)
                \o <<" ">> \o Lower(item.type)
    IN  \A i \in DOMAIN subs : Contains(blob, Lower(subs[i]))

\* MetaIndex.get_typeinfo_rva_by_substrings
get_typeinfo_rva_by_substrings(tips, cache, subs) ==
    LET key  == subs_key(subs)
        hits == {i \in DOMAIN tips : BlobMatches(tips[i], subs)}
    IN  IF key \in DOMAIN cache THEN [ret |-> cache[key], cache |-> cache]
        ELSE IF hits # {}
             THEN [ret |-> HexValue(tips[Min(hits)].virtualAddress),
                   cache |-> Put(cache, key, HexValue(tips[Min(hits)].virtualAddress))]
        ELSE [ret |-> 0, cache |-> cache]

\* The documents: up to MaxEntries entries; the entry at place i has its
\* own virtualAddress.
MetaLabels == {<<>>, <<"x", ".", "H">>, <<"x", "h">>}
MetaNames  == {<<"h", "_">>, <<"x">>}
MetaAddress(i) == <<"0", "x", "1">> \o (IF i % 3 = 1 THEN <<"0">>
                                        ELSE IF i % 3 = 2 THEN <<"a">> ELSE <<"2">>)
MetaDocuments ==
    UNION {{[i \in 1..n |-> [dotNetType |-> f[i][1], name |-> f[i][2],
                             type |-> <<"c">>, virtualAddress |-> MetaAddress(i)]] :
               f \in [1..n -> MetaLabels \X MetaNames]} : n \in 0..MaxEntries}

NameQueries == {<<"h">>, <<"H">>, <<"X">>}
SubsQueries == {<<<<"h">>>>, <<<<"x">>, <<"H">>>>}

InitMeta ==
    /\ \E d \in MetaDocuments :
          scan = [pc |-> "meta", tips |-> d, typeinfo_cache |-> EmptyCache]
    /\ mem = EmptyMem
    /\ memory = NoMemory
    /\ now = 0
    /\ call = NoCall
    /\ proc = Narrow32
    /\ svc = NewService

GetTypeinfoRvaByName ==
    /\ scan.pc = "meta"
    /\ \E name_substr \in NameQueries :
          LET r == get_typeinfo_rva_by_name(scan.tips, scan.typeinfo_cache, name_substr) IN
          /\ scan' = [scan EXCEPT !.typeinfo_cache = r.cache]
          /\ call' = [op |-> "get_typeinfo_rva_by_name", args |-> <<name_substr>>,
                      ret |-> r.ret]
    /\ UNCHANGED <<mem, memory, now, proc, svc>>

GetTypeinfoRvaBySubstrings ==
    /\ scan.pc = "meta"
    /\ \E subs \in SubsQueries :
          LET r == get_typeinfo_rva_by_substrings(scan.tips, scan.typeinfo_cache, subs) IN
          /\ scan' = [scan EXCEPT !.typeinfo_cache = r.cache]
          /\ call' = [op |-> "get_typeinfo_rva_by_substrings", args |-> <<subs>>,
                      ret |-> r.ret]
    /\ UNCHANGED <<mem, memory, now, proc, svc>>

NextMeta == GetTypeinfoRvaByName \/ GetTypeinfoRvaBySubstrings

SpecMeta == InitMeta /\ [][NextMeta]_vars

\* C26: get_typeinfo_rva_by_name returns the offset of the first entry whose
\* label is the name or ends with "." or "/" and the name, compared without
\* case; without such an entry the offset of the first entry whose internal
\* name contains the name; else 0.
C26_LabelMatchPreferred ==
    call.op = "get_typeinfo_rva_by_name" =>
        LET key   == Lower(call.args[1])
            pass1 == {i \in DOMAIN scan.tips : LabelMatches(scan.tips[i], key)}
            pass2 == {i \in DOMAIN scan.tips : NameContains(scan.tips[i], key)}
        IN  call.ret = IF pass1 # {} THEN HexValue(scan.tips[Min(pass1)].virtualAddress)
                       ELSE IF pass2 # {}
                            THEN HexValue(scan.tips[Min(pass2)].virtualAddress)
                       ELSE 0

\* C29: a lookup returns what the same lookup returns on a MetaIndex that
\* has just loaded the same document, whatever lookups came before it.
C29_LookupIndependentOfHistory ==
    /\ call.op = "get_typeinfo_rva_by_name" =>
          call.ret = get_typeinfo_rva_by_name(scan.tips, EmptyCache, call.args[1]).ret
    /\ call.op = "get_typeinfo_rva_by_substrings" =>
          call.ret = get_typeinfo_rva_by_substrings(scan.tips, EmptyCache, call.args[1]).ret


\* ---------------------------------------------------------------------
\* _classify_state: when the answer is SHIP.
\* ---------------------------------------------------------------------

\* Some player has a position, and the game-state integer, the HUD or a
\* ship status says that a game runs.
ShipEvidence(s) ==
    /\ s.any_pc_pos
    /\ \/ (s.gamedata_state_int # NoneVal /\ s.gamedata_state_int # 0)
       \/ s.hud_ptr # 0
       \/ s.ship_status_hits # <<>>

\* C27: _classify_state answers SHIP only for a vector with a positioned
\* player and one of the three signs of a running game; for every other
\* vector it answers LOBBY or MATCHING.
C27_ShipNeedsPositionAndEvidence ==
    call.op = "_classify_state" =>
        IF ShipEvidence(call.args[1])
        THEN call.ret \in {"LOBBY", "MATCHING", "SHIP"}
        ELSE call.ret \in {"LOBBY", "MATCHING"}

\* SHIP on the strength of the HUD and a positioned player alone.
C27_Witness ==
    /\ call.op = "_classify_state"
    /\ call.ret = "SHIP"
    /\ call.args[1].any_pc_pos
    /\ call.args[1].hud_ptr # 0
    /\ call.args[1].gamedata_state_int = NoneVal
    /\ call.args[1].ship_status_hits = <<>>


\* ---------------------------------------------------------------------
\* _refresh_cache: the player_id of each PlayerData record.  The list of
\* player-info objects, and whether a record's PlayerControl, position and
\* colour resolve, are given; the identifier bytes are read from memory.
\* ---------------------------------------------------------------------
MaxPlayers == 3      \* the longest list of player-info objects

PLAYER_ID_OFFSETS == <<8, 16, 24, 32, 36, 40, 44, 48, 52, 56>>

\* "for offset in (...): candidate_id = read_u8(fields + offset); if 0 <=
\* candidate_id < 16: ... break", a failed read skipped; None without one.
RECURSIVE FirstPlayerId(_, _, _)
FirstPlayerId(m, fields, offs) ==
    IF offs = <<>> THEN NoneVal
    ELSE IF CanRead8(m, fields + Head(offs)) /\ read_u8(m, fields + Head(offs)) < 16
         THEN read_u8(m, fields + Head(offs))
         ELSE FirstPlayerId(m, fields, Tail(offs))

\* The identifier a record gets, idx being its place in the list from 0:
\* the byte found in the player-info object, else in the PlayerControl; the
\* place in the list without one; max existing + 1 when the byte is taken.
assign_player_id(mc, m, rec, idx, existing) ==
    Bind(FirstPlayerId(m, rec.npi + ObjFieldsOff(mc.is_64), PLAYER_ID_OFFSETS), LAMBDA a :
    Bind(IF a # NoneVal THEN a
         ELSE FirstPlayerId(m, rec.pc + ObjFieldsOff(mc.is_64), PLAYER_ID_OFFSETS),
         LAMBDA raw :
    IF raw = NoneVal THEN idx
    ELSE IF raw \in existing THEN Max(existing) + 1
    ELSE raw))

\* The loop over enumerate(all_npi); a record that does not resolve is
\* skipped.
RECURSIVE refresh_players(_, _, _, _, _)
refresh_players(mc, m, all_npi, idx, players) ==
    IF idx >= Len(all_npi) THEN players
    ELSE IF ~all_npi[idx + 1].kept
         THEN refresh_players(mc, m, all_npi, idx + 1, players)
    ELSE Bind(assign_player_id(mc, m, all_npi[idx + 1], idx,
                               {players[k].player_id : k \in DOMAIN players}),
              LAMBDA pid :
              refresh_players(mc, m, all_npi, idx + 1,
                              Append(players, [player_id |-> pid,
                                               npi |-> all_npi[idx + 1].npi])))

\* The objects of player i, and the bytes around its identifier: src says
\* where a byte below 16 is to be found, if anywhere.
RosterNpi(i) == HeapStart + (32 + i) * 256
RosterPc(i)  == HeapStart + (64 + i) * 256
NoIdWord == [hi |-> 65535, lo |-> 65535]
RosterCells(is_64, i, src, id) ==
    LET nf == RosterNpi(i) + ObjFieldsOff(is_64)
        pf == RosterPc(i) + ObjFieldsOff(is_64)
    IN  [a \in {nf + PLAYER_ID_OFFSETS[k] : k \in DOMAIN PLAYER_ID_OFFSETS}
               \cup {pf + PLAYER_ID_OFFSETS[k] : k \in DOMAIN PLAYER_ID_OFFSETS} |->
            IF src = "npi" /\ a = nf + PLAYER_ID_OFFSETS[1] THEN W(id)
            ELSE IF src = "pc" /\ a = pf + PLAYER_ID_OFFSETS[2] THEN W(id)
            ELSE NoIdWord]

RosterKinds == [kept : BOOLEAN, src : {"npi", "pc", "none"}, id : {0, 1}]
Rosters == UNION {[1..n -> RosterKinds] : n \in 0..MaxPlayers}

RosterMem(is_64, roster) ==
    [a \in UNION {DOMAIN RosterCells(is_64, i, roster[i].src, roster[i].id) :
                     i \in DOMAIN roster} |->
        LET i == CHOOSE j \in DOMAIN roster :
                     a \in DOMAIN RosterCells(is_64, j, roster[j].src, roster[j].id)
        IN  RosterCells(is_64, i, roster[i].src, roster[i].id)[a]]

\* A roster without an identifier byte is listed once.
InitPlayers ==
    /\ \E g \in {Narrow32, Wide64} : \E roster \in Rosters :
          /\ ~(\E i \in DOMAIN roster : roster[i].src = "none" /\ roster[i].id = 1)
          /\ proc = g
          /\ mem = RosterMem(g.os_is_64 # "no", roster)
          /\ memory = MemoryClient(g, RosterMem(g.os_is_64 # "no", roster), Base)
          /\ scan = [pc |-> "players",
                     all_npi |-> [i \in DOMAIN roster |->
                                     [npi |-> RosterNpi(i), pc |-> RosterPc(i),
                                      kept |-> roster[i].kept]],
                     cached_players |-> <<>>]
    /\ svc = NewService
    /\ now = 0
    /\ call = NoCall

\* _refresh_cache(force=True)
RefreshCache ==
    /\ scan.pc = "players"
    /\ Attached(memory)
    /\ scan' = [scan EXCEPT !.cached_players =
                   refresh_players(memory, mem, scan.all_npi, 0, <<>>)]
    /\ call' = [op |-> "_refresh_cache", args |-> <<>>, ret |-> 0]
    /\ UNCHANGED <<mem, memory, now, proc, svc>>

NextPlayers == RefreshCache \/ Attach \/ Detach

SpecPlayers == InitPlayers /\ [][NextPlayers]_vars

\* C28: after _refresh_cache the player_id values of the records in
\* _cached_players are pairwise distinct.
C28_PlayerIdsDistinct ==
    call.op = "_refresh_cache" =>
        \A i, j \in DOMAIN scan.cached_players :
            i # j => scan.cached_players[i].player_id # scan.cached_players[j].player_id


\* ---------------------------------------------------------------------
\* CacheManager: a type without a TTL.
\* ---------------------------------------------------------------------

\* A get of a key of a type whose TTL is 0, after a set of that key.
GotUntimed ==
    /\ call.op = "get"
    /\ get_ttl(call.args[1]) = 0
    /\ GotKey \in DOMAIN scan.last_set

\* C30: for a type whose TTL is 0, a get returns the value of the latest
\* set of its key at any time after it, unless invalidate has removed the
\* key since; the entry stays in the store.
C30_UntimedEntryNeverExpires ==
    (GotUntimed /\ GotKey \notin scan.invalidated) =>
        /\ call.ret = scan.last_set[GotKey].value
        /\ GotKey \in DOMAIN scan.store
        /\ scan.store[GotKey].expires_at = 0

\* A get at the last tick returned what was set at the first.
C30_Witness ==
    /\ GotUntimed
    /\ GotKey \notin scan.invalidated
    /\ scan.last_set[GotKey].at = 0
    /\ now = MaxCacheTime
    /\ call.ret = scan.last_set[GotKey].value

====
